---------------------------- MODULE Spec2Model ----------------------------
(***************************************************************************)
(* Companion-note reconciliation of the Henni plugin (HenniPlugin,         *)
(* processMedia and the helpers it calls).                                 *)
(*                                                                         *)
(* Strings are sequences of one-character strings, so that concatenation,  *)
(* case folding, prefix and substring tests are computed as the code       *)
(* computes them.                                                          *)
(***************************************************************************)
EXTENDS Integers, Sequences, FiniteSets, TLC

(***************************************************************************)
(* Bounds of the model.                                                    *)
(***************************************************************************)
MaxRuns == 2           \* processMedia invocations started in one behaviour
MaxIoFailures == 1     \* unexpected storage failures injected in one behaviour

\* one slot per invocation; any number of them may be in flight at once
Procs == 1..MaxRuns

(***************************************************************************)
(* String primitives (JavaScript built-ins used by the plugin).            *)
(***************************************************************************)
\* the one element of a one-element set
The(S) == CHOOSE x \in S : TRUE

LowerLetters ==
    <<"a","b","c","d","e","f","g","h","i","j","k","l","m",
      "n","o","p","q","r","s","t","u","v","w","x","y","z">>

UpperLetters ==
    <<"A","B","C","D","E","F","G","H","I","J","K","L","M",
      "N","O","P","Q","R","S","T","U","V","W","X","Y","Z">>

DigitChars == <<"0","1","2","3","4","5","6","7","8","9">>

IndexIn(c, seq) ==
    IF \E i \in 1..Len(seq) : seq[i] = c
    THEN CHOOSE i \in 1..Len(seq) : seq[i] = c
    ELSE 0

lowerChar(c) ==
    LET k == IndexIn(c, UpperLetters)
    IN  IF k = 0 THEN c ELSE LowerLetters[k]

upperChar(c) ==
    LET k == IndexIn(c, LowerLetters)
    IN  IF k = 0 THEN c ELSE UpperLetters[k]

\* (the string operators name their argument once, as a value: v \in {s})
toLowerCase(s) ==
    The({[i \in 1..Len(v) |-> lowerChar(v[i])] : v \in {s}})

\* variant: the letters keep their case
toUpperCaseKept(s) == s

toUpperCase(s) ==
    The({[i \in 1..Len(v) |-> upperChar(v[i])] : v \in {s}})

startsWith(s, prefix) ==
    /\ Len(prefix) <= Len(s)
    /\ SubSeq(s, 1, Len(prefix)) = prefix

endsWith(s, suffix) ==
    /\ Len(suffix) <= Len(s)
    /\ SubSeq(s, Len(s) - Len(suffix) + 1, Len(s)) = suffix

includes(s, part) ==
    \E i \in 1..(Len(s) + 1) :
        /\ i + Len(part) - 1 <= Len(s)
        /\ SubSeq(s, i, i + Len(part) - 1) = part

Whitespace == {" "}

\* smallest position of s whose character is not in chars, Len(s) + 1 if
\* there is none
firstIndexNotIn(s, chars) ==
    CHOOSE i \in 1..(Len(s) + 1) :
        /\ i <= Len(s) => s[i] \notin chars
        /\ \A j \in 1..(i - 1) : s[j] \in chars

trimStart(s) ==
    The({SubSeq(v, firstIndexNotIn(v, Whitespace), Len(v)) : v \in {s}})

\* largest position of s that satisfies the test, 0 if there is none
lastIndexOf(s, c) ==
    LET found == {i \in 1..Len(s) : s[i] = c}
    IN  IF found = {} THEN 0 ELSE CHOOSE i \in found : \A j \in found : j <= i

lastIndexNotIn(s, chars) ==
    LET found == {i \in 1..Len(s) : s[i] \notin chars}
    IN  IF found = {} THEN 0 ELSE CHOOSE i \in found : \A j \in found : j <= i

trimEnd(s) == The({SubSeq(v, 1, lastIndexNotIn(v, Whitespace)) : v \in {s}})

trim(s) == trimEnd(trimStart(s))

\* decimal rendering of a non-negative integer in a template literal
RECURSIVE decimal(_)
decimal(n) ==
    IF n < 10 THEN <<DigitChars[n + 1]>>
    ELSE decimal(n \div 10) \o <<DigitChars[(n % 10) + 1]>>

(***************************************************************************)
(* Path normalisation.                                                     *)
(***************************************************************************)
stripLeadingSlashes(s) ==
    The({SubSeq(v, firstIndexNotIn(v, {"/"}), Len(v)) : v \in {s}})

stripTrailingSlashes(s) ==
    The({SubSeq(v, 1, lastIndexNotIn(v, {"/"})) : v \in {s}})

\* replace(/\\/g, '/')
unifySlashes(s) ==
    The({[i \in 1..Len(v) |-> IF v[i] = "\\" THEN "/" ELSE v[i]] : v \in {s}})

normalizeVaultPath(path) ==
    The({IF given = <<>> THEN <<>>
         ELSE LET trimmed == trim(given)
                  unified == unifySlashes(trimmed)
                  withoutLeading == stripLeadingSlashes(unified)
                  withoutTrailing == stripTrailingSlashes(withoutLeading)
              IN  withoutTrailing :
         given \in {path}})

normalizeFolderPath(path) == normalizeVaultPath(path)

\* as isPathWithinFolder, but the prefix need not end at a '/'
isPathWithinFolderPrefix(filePath, folderPath) ==
    The({IF normalizedFolder = <<>> THEN TRUE
         ELSE \E fileLower \in {toLowerCase(normalizedFile)},
                 folderLower \in {toLowerCase(normalizedFolder)} :
                 \/ fileLower = folderLower
                 \/ startsWith(fileLower, folderLower) :
         normalizedFolder \in {normalizeFolderPath(folderPath)},
         normalizedFile \in {normalizeVaultPath(filePath)}})

isPathWithinFolder(filePath, folderPath) ==
    The({IF normalizedFolder = <<>> THEN TRUE
         ELSE \E fileLower \in {toLowerCase(normalizedFile)},
                 folderLower \in {toLowerCase(normalizedFolder)} :
                 \/ fileLower = folderLower
                 \/ startsWith(fileLower, folderLower \o <<"/">>) :
         normalizedFolder \in {normalizeFolderPath(folderPath)},
         normalizedFile \in {normalizeVaultPath(filePath)}})

\* normalized.split('/').slice(0, -1).join('/')
parentPath(normalized) ==
    The({SubSeq(v, 1, lastIndexOf(v, "/") - 1) : v \in {normalized}})


(***************************************************************************)
(* Media files of the vault and the plugin settings.                       *)
(***************************************************************************)
KindImage == <<"i","m","a","g","e">>
KindPdf == <<"p","d","f">>
KindOther == <<"o","t","h","e","r">>
MediaKind == {KindImage, KindPdf, KindOther}

ExtPng == <<"p","n","g">>
ExtPdf == <<"p","d","f">>

\* TFile snapshots: 'a.png' in the vault root and 's/a.png' in folder 's'
FileRootA ==
    [path |-> <<"a",".","p","n","g">>, basename |-> <<"a">>,
     extension |-> ExtPng, parent |-> <<"/">>]

FileSubA ==
    [path |-> <<"s","/","a",".","p","n","g">>, basename |-> <<"a">>,
     extension |-> ExtPng, parent |-> <<"s">>]

FolderI == <<"I">>
FolderP == <<"P">>
FolderO == <<"O">>
FolderCovers == <<"C">>

\* settings as loaded: defaults merged with stored values
DefaultSettings ==
    [imageNoteFolder |-> FolderI,
     pdfNoteFolder |-> FolderP,
     otherDigitalAssetsNoteFolder |-> FolderO,
     pdfFirstPageFolder |-> FolderCovers,
     autoCreateOnFileAdd |-> TRUE,
     useSuffix |-> FALSE,
     imageExtensions |-> {ExtPng},
     pdfExtensions |-> {ExtPdf},
     otherExtensions |-> {},
     imageSourceFolders |-> {},
     pdfSourceFolders |-> {},
     otherSourceFolders |-> {},
     fileLinkProperty |-> <<"u","r","l">>,
     coverLinkProperty |-> "cover",
     imageTemplatePath |-> <<>>,
     pdfTemplatePath |-> <<>>,
     otherTemplatePath |-> <<>>]

\* the user lists 'png' among the PDF extensions as well
OverlapSettings == [DefaultSettings EXCEPT !.pdfExtensions = {ExtPdf, ExtPng}]

\* the user leaves the image note folder empty
BlankFolderSettings == [DefaultSettings EXCEPT !.imageNoteFolder = <<>>]

\* the vaults and settings the model starts from
Scenarios ==
    {[settings |-> DefaultSettings, media |-> {FileRootA, FileSubA}],
     [settings |-> OverlapSettings, media |-> {FileSubA}],
     [settings |-> BlankFolderSettings, media |-> {FileRootA}]}

getExtensions(settings, kind) ==
    IF kind = KindImage THEN settings.imageExtensions
    ELSE IF kind = KindPdf THEN settings.pdfExtensions
    ELSE settings.otherExtensions

matchesExtension(settings, extension, kind) ==
    IF extension = <<>> THEN FALSE
    ELSE toLowerCase(extension) \in getExtensions(settings, kind)

NoKind == <<>>

\* as resolveKind, but the PDF extensions are looked at first
resolveKindPdfFirst(settings, file) ==
    LET ext == toLowerCase(file.extension)
    IN  IF ext = <<>> THEN NoKind
        ELSE IF ext \in settings.pdfExtensions THEN KindPdf
        ELSE IF ext \in settings.imageExtensions THEN KindImage
        ELSE IF ext \in settings.otherExtensions THEN KindOther
        ELSE NoKind

resolveKind(settings, file) ==
    LET ext == toLowerCase(file.extension)
    IN  IF ext = <<>> THEN NoKind
        ELSE IF ext \in settings.imageExtensions THEN KindImage
        ELSE IF ext \in settings.pdfExtensions THEN KindPdf
        ELSE IF ext \in settings.otherExtensions THEN KindOther
        ELSE NoKind

\* the path of the user's template, empty for the bundled template
getUserTemplatePath(settings, kind) ==
    trim(IF kind = KindImage THEN settings.imageTemplatePath
         ELSE IF kind = KindPdf THEN settings.pdfTemplatePath
         ELSE settings.otherTemplatePath)

getTargetFolder(settings, kind) ==
    IF kind = KindImage THEN settings.imageNoteFolder
    ELSE IF kind = KindPdf THEN settings.pdfNoteFolder
    ELSE settings.otherDigitalAssetsNoteFolder

getAllowedFolders(settings, kind) ==
    IF kind = KindImage THEN settings.imageSourceFolders
    ELSE IF kind = KindPdf THEN settings.pdfSourceFolders
    ELSE settings.otherSourceFolders

\* variant: the whitelist is not consulted
isSourceAllowedAlways(settings, file, kind) == TRUE

isSourceAllowed(settings, file, kind) ==
    LET allowed == getAllowedFolders(settings, kind)
    IN  IF allowed = {} THEN TRUE
        ELSE \E filePath \in {normalizeVaultPath(file.path)} :
                \E folder \in allowed : isPathWithinFolder(filePath, folder)

(***************************************************************************)
(* Note identity.                                                          *)
(***************************************************************************)
MdSuffix == <<".","m","d">>

\* as computePrimaryNotePath, but the folder is the one the settings name
\* for the kind
computePrimaryNotePathOfSetting(settings, file, kind, folder) ==
    LET folderPath == normalizeFolderPath(getTargetFolder(settings, kind))
        source == IF file.extension # <<>> THEN file.extension ELSE kind
        folderPrefix == IF folderPath # <<>> THEN folderPath \o <<"/">> ELSE <<>>
        baseName == IF settings.useSuffix
                    THEN file.basename \o <<".">> \o toLowerCase(source)
                    ELSE toUpperCase(source) \o <<"-">> \o file.basename
    IN  [baseName |-> baseName,
         notePath |-> folderPrefix \o baseName \o <<".","m","d">>]

computePrimaryNotePath(settings, file, kind, folder) ==
    LET folderPath == normalizeFolderPath(folder)
        source == IF file.extension # <<>> THEN file.extension ELSE kind
        folderPrefix == IF folderPath # <<>> THEN folderPath \o <<"/">> ELSE <<>>
    IN  IF settings.useSuffix
        THEN LET baseName == file.basename \o <<".">> \o toLowerCase(source)
             IN  [baseName |-> baseName,
                  notePath |-> folderPrefix \o baseName \o MdSuffix]
        ELSE LET baseName == toUpperCase(source) \o <<"-">> \o file.basename
             IN  [baseName |-> baseName,
                  notePath |-> folderPrefix \o baseName \o MdSuffix]

\* variant: the numbering starts one too high
copyCandidateShifted(prefix, baseName, idx) ==
    prefix \o baseName \o <<" ","(","c","o","p","y"," ">> \o decimal(idx + 1)
           \o <<")">> \o MdSuffix

\* `${prefix}${baseName} (copy ${idx}).md`
copyCandidate(prefix, baseName, idx) ==
    prefix \o baseName \o <<" ","(","c","o","p","y"," ">> \o decimal(idx)
           \o <<")">> \o MdSuffix

\* the loop of getNextCopyNotePath: idx counts up from 1 and stops at the
\* first candidate for which getAbstractFileByPath returns no entry, every
\* candidate before it holding one; occupied is the set of paths that hold
\* an entry, so that the loop stops at the latest after one candidate more
\* than there are entries
firstFreeIndex(occupied, prefix, baseName) ==
    CHOOSE idx \in 1..(Cardinality(occupied) + 1) :
        /\ copyCandidate(prefix, baseName, idx) \notin occupied
        /\ \A passed \in 1..(idx - 1) :
              copyCandidate(prefix, baseName, passed) \in occupied

\* the prefix of the notes of a folder
folderPrefix(folder) ==
    LET folderPath == normalizeFolderPath(folder)
    IN  IF folderPath # <<>> THEN folderPath \o <<"/">> ELSE <<>>

\* variant: the first candidate is returned whether or not it is occupied
getNextCopyNotePathUnchecked(occupied, folder, baseName) ==
    copyCandidate(folderPrefix(folder), baseName, 1)

getNextCopyNotePath(occupied, folder, baseName) ==
    The({copyCandidate(prefix, baseName,
                       firstFreeIndex(occupied, prefix, baseName)) :
            prefix \in {folderPrefix(folder)}})

(***************************************************************************)
(* Storage errors and their classification.                                *)
(***************************************************************************)
MsgFileExists ==
    <<"F","i","l","e"," ","a","l","r","e","a","d","y"," ",
      "e","x","i","s","t","s",".">>
MsgNoEntry == <<"E","N","O","E","N","T">>
MsgIoError == <<"E","I","O">>
NoError == <<>>

AlreadyExistsText ==
    <<"a","l","r","e","a","d","y"," ","e","x","i","s","t","s">>

isWordChar(c) ==
    \/ IndexIn(c, LowerLetters) # 0
    \/ IndexIn(c, UpperLetters) # 0
    \/ IndexIn(c, DigitChars) # 0
    \/ c = "_"

\* variant: no message counts as a conflict
isAlreadyExistsErrorNever(msg) == msg = <<"E","E","X","I","S","T">>

\* /\balready exists\b/i.test(msg)
isAlreadyExistsError(msg) ==
    /\ msg # <<>>
    /\ \E low \in {toLowerCase(msg)} :
       \E i \in 1..Len(low) :
          LET n == Len(AlreadyExistsText)
          IN  /\ i + n - 1 <= Len(low)
              /\ SubSeq(low, i, i + n - 1) = AlreadyExistsText
              /\ (i = 1 \/ ~isWordChar(low[i - 1]))
              /\ (i + n - 1 = Len(low) \/ ~isWordChar(low[i + n]))

(***************************************************************************)
(* Link matching.                                                          *)
(***************************************************************************)
\* val.replace(/^"|"$/g, "")
stripQuotes(s) ==
    The({IF a # <<>> /\ a[Len(a)] = "\"" THEN SubSeq(a, 1, Len(a) - 1) ELSE a :
         a \in {IF s # <<>> /\ Head(s) = "\"" THEN Tail(s) ELSE s}})

\* val.match(/^\[\[([^\]]+)\]\]$/): the inner text, or the empty string
wikiInner(val) ==
    IF /\ Len(val) >= 5
       /\ SubSeq(val, 1, 2) = <<"[","[">>
       /\ SubSeq(val, Len(val) - 1, Len(val)) = <<"]","]">>
       /\ \A i \in 3..(Len(val) - 2) : val[i] # "]"
    THEN SubSeq(val, 3, Len(val) - 2)
    ELSE <<>>

\* metadataCache.getFirstLinkpathDest: the paths a link text may resolve to
\* (the file at exactly that path, else files of that name in a subfolder)
getFirstLinkpathDest(mediaSet, inner) ==
    IF \E f \in mediaSet : f.path = inner THEN {inner}
    ELSE {f.path : f \in {g \in mediaSet : endsWith(g.path, <<"/">> \o inner)}}

StatusNotFound == "not-found"
StatusMatches == "matches"
StatusDifferent == "exists-different"

compare(mediaSet, raw, targetPath) ==
    IF raw = <<>> THEN StatusDifferent
    ELSE The({
             IF inner # <<>> /\ targetPath \in getFirstLinkpathDest(mediaSet, inner)
                 THEN StatusMatches
             ELSE IF toLowerCase(val) = toLowerCase(targetPath)
                 THEN StatusMatches
             ELSE IF includes(val, targetPath) THEN StatusMatches
             ELSE StatusDifferent :
             val \in {stripQuotes(trim(raw))},
             inner \in {wikiInner(stripQuotes(trim(raw)))}})

\* files: path -> note content (the index and the disk agree in this model);
\* others: the paths that hold a folder or a file without frontmatter;
\* cached: path -> frontmatter value held by the metadata cache
noteStatus(mediaSet, files, others, cached, notePath, targetPath) ==
    IF notePath \notin DOMAIN files
    THEN IF notePath \in others THEN StatusDifferent ELSE StatusNotFound
    ELSE IF compare(mediaSet, cached[notePath], targetPath) = StatusMatches
            THEN StatusMatches
         ELSE IF compare(mediaSet, files[notePath].link, targetPath) = StatusMatches
            THEN StatusMatches
         ELSE StatusDifferent


(***************************************************************************)
(* State.                                                                  *)
(***************************************************************************)
VARIABLES
    settings,        \* this.settings
    media,           \* media files of the vault
    folders,         \* folders of the vault
    ensuredFolders,  \* this.ensuredFolders
    notes,           \* Markdown files of the vault: path -> content
    cache,           \* metadata cache: path -> frontmatter link value
    templateCache,   \* this.templateCache: kind -> the template it holds
    thumbs,          \* extracted first-page images
    calls,           \* processMedia invocations: locals and position
    runs,            \* invocations started so far
    ioFailures,      \* storage failures injected so far
    lastRun,         \* the invocation that completed last
    phase,           \* onload: "loading", "ready" or "failed"
    notices,         \* the notices shown to the user
    scan,            \* the scan loop in progress: its list and position
    probe            \* a helper of the plugin called on its own: input and result

vars == <<settings, media, folders, ensuredFolders, notes, cache, templateCache,
          thumbs, calls, runs, ioFailures, lastRun, phase, notices, scan,
          probe>>

vaultVars == <<folders, ensuredFolders, notes, cache, templateCache, thumbs>>

MaxAttempts == 100

\* every path for which getAbstractFileByPath returns an entry
occupiedPaths(noteMap, folderSet, thumbSet) ==
    DOMAIN noteMap \cup folderSet \cup thumbSet \cup {f.path : f \in media}

\* the entries of the vault that are no notes: folders and media files
otherEntries == folders \cup thumbs \cup {f.path : f \in media}

\* file name without its folder
fileName(path) ==
    The({SubSeq(v, lastIndexOf(v, "/") + 1, Len(v)) : v \in {path}})

\* TFile.basename: the name without its extension
dropExtension(name) ==
    The({SubSeq(v, 1, lastIndexOf(v, ".") - 1) : v \in {name}})

fileBasename(path) ==
    The({IF \E i \in 1..Len(name) : name[i] = "." THEN dropExtension(name)
         ELSE name :
         name \in {fileName(path)}})

(***************************************************************************)
(* Note content.  The bundled templates carry the link property as a       *)
(* quoted wiki-link to the media path.                                     *)
(***************************************************************************)
BundledTemplateLink(url) ==
    <<"\"","[","[">> \o url \o <<"]","]","\"">>

\* extractPdfFirstPage: the image path
thumbPath(cfg, file) ==
    LET folder == IF cfg.pdfFirstPageFolder # <<>>
                  THEN cfg.pdfFirstPageFolder
                  ELSE file.parent
    IN  folder \o <<"/">> \o file.basename
               \o <<"-","p","a","g","e","1",".","j","p","g">>

\* variant: the cover and the EXIF fields are filled whatever the extraction
\* did
buildNoteContentUnaware(cfg, file, kind, duplicate, extract) ==
    [link |-> BundledTemplateLink(file.path), duplicate |-> duplicate,
     cover |-> IF kind = KindPdf THEN thumbPath(cfg, file) ELSE file.path,
     exif |-> kind = KindImage]

\* extract: "failed" when extractPdfFirstPage returned '' (pdf) or when
\* readBinary or extractExifData threw (image); cover is the value of
\* {{cover}}, exif tells whether the EXIF fields are filled (the images of
\* the model carry EXIF data)
buildNoteContent(cfg, file, kind, duplicate, extract) ==
    [link |-> BundledTemplateLink(file.path), duplicate |-> duplicate,
     cover |-> IF kind = KindPdf
               THEN IF extract = "failed" THEN <<>> ELSE thumbPath(cfg, file)
               ELSE file.path,
     exif |-> kind = KindImage /\ extract # "failed"]

\* a note written by the user that carries no link property
UserNote == [link |-> <<>>, duplicate |-> FALSE]

\* the frontmatter value the metadata cache holds once it has parsed a note
parsedFrontmatter(content) == stripQuotes(content.link)

\* ensureFolderExists: the folders it visits, ancestors first
RECURSIVE ensureChain(_, _)
ensureChain(folder, ensured) ==
    The({IF normalized = <<>> \/ normalized \in ensured THEN <<>>
         ELSE ensureChain(parentPath(normalized), ensured) \o <<normalized>> :
         normalized \in {normalizeFolderPath(folder)}})

\* vault.create: the message of the error it throws, NoError on success
vaultCreateError(noteMap, folderSet, thumbSet, path) ==
    IF path \in occupiedPaths(noteMap, folderSet, thumbSet) THEN MsgFileExists
    ELSE IF parentPath(path) # <<>> /\ parentPath(path) \notin folderSet
        THEN MsgNoEntry
    ELSE NoError

\* the empty template cache
NoTemplates == [kind \in {} |-> <<>>]

\* a template in the cache: the path setting it was loaded for, and the
\* path its content was read from (empty for the bundled template)
cachedTemplate(setting, content) == [setting |-> setting, content |-> content]

\* no template read is in progress
NoLoad == [active |-> FALSE, path |-> <<>>]

IdleCall ==
    [pc |-> "idle", file |-> FileRootA, kind |-> KindImage, force |-> FALSE,
     targetFolder |-> <<>>, baseName |-> <<>>, notePath |-> <<>>,
     status |-> StatusNotFound, chain |-> <<>>,
     searchFolder |-> <<>>, searchBase |-> <<>>, searchPath |-> <<>>,
     cands |-> {}, matches |-> <<>>, existing |-> <<>>,
     attempts |-> 0, copyPath |-> <<>>,
     created |-> {}, modified |-> {}, tried |-> <<>>, renders |-> 0,
     deleted |-> {}, failed |-> {},
     error |-> NoError, outcome |-> "none", extract |-> "none",
     loading |-> NoLoad,
     before |-> {}, linked |-> {}, alone |-> TRUE, repeat |-> FALSE]

\* the note at path carries the link the templates write for file
linksTo(noteMap, path, file) ==
    noteMap[path].link = BundledTemplateLink(file.path)

\* no helper has been called on its own
NoProbe == [done |-> FALSE]

\* no scan loop is running
NoScan == [state |-> "idle", list |-> <<>>, next |-> 1, thrown |-> {}]

NoRun == [valid |-> FALSE, file |-> FileRootA, kind |-> KindImage]

InFlight(p) == calls[p].pc \notin {"idle", "done"}

\* canonical note paths at which a user note may already sit
UserNotePaths(cfg, mediaSet) ==
    {computePrimaryNotePath(cfg, f, k,
        IF trim(getTargetFolder(cfg, k)) = <<>> THEN f.parent
        ELSE getTargetFolder(cfg, k)).notePath :
        f \in mediaSet,
        k \in {kk \in MediaKind : \E g \in mediaSet :
                  matchesExtension(cfg, g.extension, kk)}}

mediaFolders(mediaSet) ==
    {normalizeFolderPath(f.parent) : f \in mediaSet} \ {<<>>}

\* the vault and settings of a scenario with a plugin that has not run yet;
\* the user may have written notes at canonical paths
StateFrom(scenario) ==
    /\ settings = scenario.settings
    /\ media = scenario.media
    /\ \E userPaths \in SUBSET UserNotePaths(settings, media) :
          /\ notes = [q \in userPaths |-> UserNote]
          /\ cache = [q \in userPaths |-> <<>>]
          /\ folders = mediaFolders(media)
                          \cup ({parentPath(q) : q \in userPaths} \ {<<>>})
    /\ ensuredFolders = {}
    /\ templateCache = NoTemplates
    /\ thumbs = {}
    /\ calls = [p \in Procs |-> IdleCall]
    /\ runs = 0
    /\ ioFailures = 0
    /\ lastRun = NoRun
    /\ notices = {}
    /\ scan = NoScan
    /\ probe = NoProbe

\* the plugin is loaded on a scenario
InitFrom(scenario) ==
    /\ StateFrom(scenario)
    /\ phase = "ready"

\* as handlersRegistered, but onload goes on after the worker has failed
handlersRegisteredAnyway == phase \in {"ready", "failed"}

\* onload has reached its addCommand, registerEvent and addSettingTab calls
handlersRegistered == phase = "ready"

Init == \E scenario \in Scenarios : InitFrom(scenario)

(***************************************************************************)
(* processMedia, first block: folder fallback, eligibility, identity.      *)
(***************************************************************************)
\* a call that has returned: lastRun remembers it if it ran alone
Returned(call) ==
    [valid |-> call.alone /\ call.error = NoError /\ call.outcome # "skipped",
     file |-> call.file, kind |-> call.kind]

processMediaEntry(p, file, kind, folderArg, force) ==
    LET blank == trim(folderArg) = <<>>
        chosen == IF blank THEN file.parent ELSE folderArg
        eligible == force \/ isSourceAllowed(settings, file, kind)
        targetFolder == normalizeFolderPath(chosen)
        identity == computePrimaryNotePath(settings, file, kind, targetFolder)
        quiet == \A q \in Procs \ {p} : ~InFlight(q)
        chain == IF targetFolder # <<>>
                 THEN ensureChain(targetFolder, ensuredFolders) ELSE <<>>
        call == [IdleCall EXCEPT
                    !.file = file, !.kind = kind, !.force = force,
                    !.targetFolder = targetFolder,
                    !.baseName = identity.baseName,
                    !.notePath = identity.notePath,
                    !.chain = chain,
                    !.before = DOMAIN notes,
                    !.linked = {q \in DOMAIN notes : linksTo(notes, q, file)},
                    !.alone = quiet,
                    !.repeat = /\ quiet
                               /\ lastRun.valid
                               /\ lastRun.file = file
                               /\ lastRun.kind = kind,
                    !.pc = IF ~eligible THEN "done"
                           ELSE IF chain # <<>> THEN "ensure" ELSE "status",
                    !.outcome = IF ~eligible THEN "skipped" ELSE "none"]
    IN  /\ calls[p].pc \in {"idle", "done"}
        /\ \A q \in Procs : q < p => InFlight(q)
        /\ runs < MaxRuns
        /\ runs' = runs + 1
        /\ calls' = [q \in Procs |->
                        IF q = p THEN call
                        ELSE IF InFlight(q) THEN [calls[q] EXCEPT !.alone = FALSE]
                        ELSE IdleCall]
        /\ lastRun' = IF eligible THEN lastRun ELSE Returned(call)
        /\ UNCHANGED <<settings, media, probe, phase, notices, vaultVars, ioFailures>>

\* a scan command reaches file: processMedia(file, kind, folder of the kind)
Scan(p, file, kind) ==
    /\ handlersRegistered
    /\ getExtensions(settings, kind) # {}
    /\ matchesExtension(settings, file.extension, kind)
    /\ isSourceAllowed(settings, file, kind)
    /\ processMediaEntry(p, file, kind, getTargetFolder(settings, kind), FALSE)
    /\ UNCHANGED scan

\* the 'create' handler returns on 'if (!folder) return': slot p records the
\* event, for which processMedia is not invoked
eventIgnored(p, file, kind) ==
    /\ calls[p].pc \in {"idle", "done"}
    /\ \A q \in Procs : q < p => InFlight(q)
    /\ runs < MaxRuns
    /\ runs' = runs + 1
    /\ calls' = [q \in Procs |->
                    IF q = p
                    THEN [IdleCall EXCEPT !.file = file, !.kind = kind,
                                          !.pc = "done", !.outcome = "ignored"]
                    ELSE IF InFlight(q) THEN calls[q] ELSE IdleCall]
    /\ UNCHANGED <<settings, media, probe, phase, notices, vaultVars, ioFailures,
                   lastRun>>

\* the vault 'create' handler
FileCreated(p, file) ==
    LET isImage == matchesExtension(settings, file.extension, KindImage)
        isPdf == matchesExtension(settings, file.extension, KindPdf)
        isOther == matchesExtension(settings, file.extension, KindOther)
        kind == IF isImage THEN KindImage
                ELSE IF isPdf THEN KindPdf ELSE KindOther
    IN  /\ handlersRegistered
        /\ settings.autoCreateOnFileAdd
        /\ isImage \/ isPdf \/ isOther
        /\ isSourceAllowed(settings, file, kind)
        /\ IF kind = KindOther /\ getTargetFolder(settings, kind) = <<>>
           THEN eventIgnored(p, file, kind)
           ELSE processMediaEntry(p, file, kind,
                                  getTargetFolder(settings, kind), FALSE)
        /\ UNCHANGED scan


(***************************************************************************)
(* ensureFolderExists, one folder of the chain per step.                   *)
(***************************************************************************)
afterEnsure(call) ==
    [call EXCEPT !.chain = Tail(call.chain),
                 !.pc = IF Len(call.chain) > 1 THEN "ensure" ELSE "status"]

EnsureFolder(p) ==
    LET call == calls[p]
        folder == Head(call.chain)
    IN  /\ call.pc = "ensure"
        /\ folders' = IF folder \in occupiedPaths(notes, folders, thumbs)
                      THEN folders ELSE folders \cup {folder}
        /\ ensuredFolders' = ensuredFolders \cup {folder}
        /\ calls' = [calls EXCEPT ![p] = afterEnsure(call)]
        /\ UNCHANGED <<settings, media, probe, phase, notices, scan, notes, cache, templateCache, thumbs, runs,
                       ioFailures, lastRun>>

\* createFolder throws an error that is not 'already exists': it is logged
\* and the folder is recorded as ensured all the same
EnsureFolderFails(p) ==
    LET call == calls[p]
        folder == Head(call.chain)
    IN  /\ call.pc = "ensure"
        /\ folder \notin occupiedPaths(notes, folders, thumbs)
        /\ ioFailures < MaxIoFailures
        /\ ioFailures' = ioFailures + 1
        /\ ensuredFolders' = ensuredFolders \cup {folder}
        /\ calls' = [calls EXCEPT ![p] = afterEnsure(call)]
        /\ UNCHANGED <<settings, media, probe, phase, notices, scan, folders, notes, cache, templateCache, thumbs,
                       runs, lastRun>>

(***************************************************************************)
(* processMedia: status of the canonical path.                             *)
(***************************************************************************)
\* variant: a matching canonical note does not end the call
afterStatusNoReturn(status) == "index"

\* the branch taken on the status of the canonical note
afterStatus(status) == IF status = StatusMatches THEN "done" ELSE "index"

\* (in the actions, \E over a one-element set names a value computed once)
CheckStatus(p) ==
    /\ calls[p].pc = "status"
    /\ \E status \in {noteStatus(media, notes, otherEntries, cache,
                                  calls[p].notePath, calls[p].file.path)} :
       \E next \in {[calls[p] EXCEPT
                        !.status = status,
                        !.pc = afterStatus(status),
                        !.outcome = IF afterStatus(status) = "done"
                                    THEN "matched" ELSE "none"]} :
          /\ calls' = [calls EXCEPT ![p] = next]
          /\ lastRun' = IF next.pc = "done" THEN Returned(next) ELSE lastRun
          /\ UNCHANGED <<settings, media, probe, phase, notices, scan, vaultVars, runs, ioFailures>>

(***************************************************************************)
(* getIndexNotePath / getMediaNotes, and the branch processMedia takes on  *)
(* its result.  Every noteStatus call is one step (it waits for storage);  *)
(* the code that runs between two such calls belongs to the step of the    *)
(* call before it.                                                         *)
(***************************************************************************)
\* getMediaNotes: the folder it searches, the folder of the file when the
\* folder of the kind is blank
searchFolder(cfg, file, kind) ==
    normalizeFolderPath(
        IF trim(getTargetFolder(cfg, kind)) = <<>> THEN file.parent
        ELSE getTargetFolder(cfg, kind))

\* getIndexNotePath / getMediaNotes: the identity they search under
searchRecord(kind, folder, identity) ==
    [kind |-> kind, folder |-> folder,
     baseName |-> identity.baseName, notePath |-> identity.notePath]

searchIdentity(cfg, file) ==
    LET kind == resolveKind(cfg, file)
        folder == searchFolder(cfg, file, kind)
    IN  searchRecord(kind, folder,
                     computePrimaryNotePath(cfg, file, kind, folder))

\* the filter over vault.getFiles()
isCandidate(path, folder, notePath, baseName) ==
    /\ normalizeFolderPath(parentPath(path)) = folder
    /\ \/ path = notePath
       \/ fileBasename(path) = baseName
       \/ startsWith(fileBasename(path), baseName \o <<" ","(">>)

getFiles == DOMAIN notes \cup thumbs \cup {f.path : f \in media}

\* variant: the loop bound is off by one
loopContinuesInclusive(attempts) == attempts <= MaxAttempts

\* for (let attempts = 0; attempts < 100; attempts++)
loopContinues(attempts) == attempts < MaxAttempts

\* as indexNotePath, but the last note found is returned
indexNotePathLast(matches) ==
    IF matches # <<>> THEN matches[Len(matches)] ELSE <<>>

\* getIndexNotePath: notes.length > 0 ? notes[0].path : null (null is the
\* empty path)
indexNotePath(matches) ==
    IF matches # <<>> THEN matches[1] ELSE <<>>

\* processMedia after getIndexNotePath has returned: update the note found,
\* create the base note, or enter the copy loop with its first candidate
decide(call) ==
    LET existingMatchPath == indexNotePath(call.matches)
        update == existingMatchPath # <<>> /\ existingMatchPath \in DOMAIN notes
    IN  IF update
        THEN [call EXCEPT !.pc = "modify", !.existing = existingMatchPath]
        ELSE IF call.status = StatusNotFound
        THEN [call EXCEPT !.pc = "create"]
        ELSE IF loopContinues(0)
        THEN [call EXCEPT
                !.pc = "copy", !.attempts = 0,
                !.copyPath = getNextCopyNotePath(
                    occupiedPaths(notes, folders, thumbs),
                    call.targetFolder, call.baseName)]
        ELSE [call EXCEPT !.pc = "done", !.outcome = "exhausted"]

\* the candidates of the filter over vault.getFiles()
candidatesOf(search) ==
    {c \in getFiles :
        isCandidate(c, search.folder, search.notePath, search.baseName)}

\* const primary = ...; if (primary instanceof TFile) { noteStatus ... }
primaryMatch(search, file) ==
    IF /\ search.notePath \in DOMAIN notes
       /\ noteStatus(media, notes, otherEntries, cache, search.notePath,
                     file.path) = StatusMatches
    THEN <<search.notePath>> ELSE <<>>

\* resolveKind, the check of the primary path and the list of candidates
SearchNotes(p) ==
    /\ calls[p].pc = "index"
    /\ \E kind \in {resolveKind(settings, calls[p].file)} :
       \E folder \in {searchFolder(settings, calls[p].file, kind)} :
       \E identity \in {computePrimaryNotePath(settings, calls[p].file,
                                                kind, folder)} :
       \E search \in {searchRecord(kind, folder, identity)} :
       \E candidates \in {candidatesOf(search)} :
       \E found \in {[calls[p] EXCEPT
                         !.searchFolder = search.folder,
                         !.searchBase = search.baseName,
                         !.searchPath = search.notePath,
                         !.cands = candidates,
                         !.matches = primaryMatch(search, calls[p].file)]} :
       \E next \in {IF search.kind = NoKind THEN decide(calls[p])
                     ELSE IF candidates = {} THEN decide(found)
                     ELSE [found EXCEPT !.pc = "cands"]} :
          /\ calls' = [calls EXCEPT ![p] = next]
          /\ UNCHANGED <<settings, media, probe, phase, notices, scan, vaultVars, runs, ioFailures, lastRun>>

\* the matches after candidate c has been examined
examined(call, c) ==
    LET seen == \E i \in 1..Len(call.matches) : call.matches[i] = c
    IN  IF ~seen /\ noteStatus(media, notes, otherEntries, cache, c,
                                call.file.path) = StatusMatches
        THEN Append(call.matches, c) ELSE call.matches

\* one iteration of the loop over the candidates; the enumeration order of
\* getFiles() is not fixed, so any remaining candidate may come next
IndexCandidate(p, c) ==
    /\ calls[p].pc = "cands"
    /\ c \in calls[p].cands
    /\ \E checked \in {[calls[p] EXCEPT
                           !.cands = calls[p].cands \ {c},
                           !.matches = examined(calls[p], c)]} :
       \E next \in {IF checked.cands = {} THEN decide(checked) ELSE checked} :
          /\ calls' = [calls EXCEPT ![p] = next]
          /\ UNCHANGED <<settings, media, probe, phase, notices, scan, vaultVars, runs, ioFailures, lastRun>>

(***************************************************************************)
(* processMedia: update in place, create the base note, or the copy loop.  *)
(***************************************************************************)
\* state effects of buildNoteContent: the template is cached and, for the
\* pdf kind, the first page is extracted unless the image exists
renderEffects(call) ==
    \E image \in {thumbPath(settings, call.file)} :
    \E extract \in {/\ call.kind = KindPdf
                     /\ image \notin thumbs
                     /\ call.extract # "failed"} :
    \E chain \in {IF extract
                   THEN ensureChain(parentPath(image), ensuredFolders)
                   ELSE <<>>} :
    \E visited \in {{chain[i] : i \in 1..Len(chain)}} :
        /\ templateCache' =
              IF call.kind \in DOMAIN templateCache THEN templateCache
              ELSE The({(call.kind :> cachedTemplate(userPath, userPath))
                            @@ templateCache :
                        userPath \in {getUserTemplatePath(settings, call.kind)}})
        /\ thumbs' = IF extract THEN thumbs \cup {image} ELSE thumbs
        /\ folders' = folders \cup visited
        /\ ensuredFolders' = ensuredFolders \cup visited

Modify(p) ==
    /\ calls[p].pc = "modify"
    /\ ~calls[p].loading.active
    /\ \E call \in {calls[p]} :
       \E content \in {buildNoteContent(settings, call.file, call.kind,
                                        call.existing # call.notePath,
                                        call.extract)} :
       \E next \in {[call EXCEPT
                        !.pc = "done", !.outcome = "updated",
                        !.renders = call.renders + 1,
                        !.modified = call.modified \cup {call.existing}]} :
          /\ renderEffects(call)
          /\ notes' = [notes EXCEPT ![call.existing] = content]
          /\ calls' = [calls EXCEPT ![p] = next]
          /\ lastRun' = Returned(next)
          /\ UNCHANGED <<settings, media, probe, phase, notices, scan, cache, runs, ioFailures>>

\* as baseAttempt, but a create that failed for another reason than a
\* conflict is attempted again
baseAttemptRetrying(call, msg) ==
    [call EXCEPT
        !.pc = IF msg # NoError /\ ~isAlreadyExistsError(msg)
               THEN "create" ELSE "done",
        !.renders = call.renders + 1,
        !.created = IF msg = NoError
                    THEN call.created \cup {call.notePath}
                    ELSE call.created,
        !.error = IF msg # NoError /\ ~isAlreadyExistsError(msg)
                  THEN msg ELSE NoError,
        !.outcome = IF msg = NoError THEN "created"
                    ELSE IF isAlreadyExistsError(msg) THEN "conflict"
                    ELSE "failed"]

\* the call after vault.create(notePath, content) has answered msg
baseAttempt(call, msg) ==
    [call EXCEPT
        !.pc = "done",
        !.renders = call.renders + 1,
        !.created = IF msg = NoError
                    THEN call.created \cup {call.notePath}
                    ELSE call.created,
        !.error = IF msg # NoError /\ ~isAlreadyExistsError(msg)
                  THEN msg ELSE NoError,
        !.outcome = IF msg = NoError THEN "created"
                    ELSE IF isAlreadyExistsError(msg) THEN "conflict"
                    ELSE "failed"]

CreateBase(p) ==
    /\ calls[p].pc = "create"
    /\ ~calls[p].loading.active
    /\ \E call \in {calls[p]} :
       \E msg \in {vaultCreateError(notes, folders, thumbs, call.notePath)} :
       \E next \in {baseAttempt(call, msg)} :
          /\ renderEffects(call)
          /\ notes' = IF msg = NoError
                      THEN (call.notePath :>
                              buildNoteContent(settings, call.file,
                                               call.kind, FALSE, call.extract))
                           @@ notes
                      ELSE notes
          /\ cache' = IF msg = NoError
                      THEN (call.notePath :> <<>>) @@ cache ELSE cache
          /\ calls' = [calls EXCEPT ![p] = next]
          /\ lastRun' = Returned(next)
          /\ UNCHANGED <<settings, media, probe, phase, notices, scan, runs, ioFailures>>

\* the call after vault.create(copyPath, content) has answered msg: break on
\* success and on an error that is no conflict, else continue with the next
\* copy path while the loop condition holds; occupied is the set of paths
\* that hold an entry after the refused create
copyAttempt(call, msg, occupied) ==
    LET retry == msg # NoError /\ isAlreadyExistsError(msg)
        attempts == IF retry THEN call.attempts + 1 ELSE call.attempts
        again == retry /\ loopContinues(attempts)
    IN  [call EXCEPT
            !.pc = IF again THEN "copy" ELSE "done",
            !.renders = call.renders + 1,
            !.attempts = attempts,
            !.tried = Append(call.tried, call.copyPath),
            !.extract = IF again THEN "none" ELSE call.extract,
            !.copyPath = IF again
                         THEN getNextCopyNotePath(
                                 occupied, call.targetFolder, call.baseName)
                         ELSE call.copyPath,
            !.created = IF msg = NoError
                        THEN call.created \cup {call.copyPath}
                        ELSE call.created,
            !.error = IF msg # NoError /\ ~retry THEN msg ELSE NoError,
            !.outcome = IF msg = NoError THEN "copied"
                        ELSE IF retry THEN "exhausted" ELSE "failed"]

CreateCopy(p) ==
    /\ calls[p].pc = "copy"
    /\ ~calls[p].loading.active
    /\ \E call \in {calls[p]} :
       \E occupied \in {occupiedPaths(notes, folders, thumbs)} :
       \E msg \in {vaultCreateError(notes, folders, thumbs, call.copyPath)} :
       \E next \in {copyAttempt(call, msg, occupied)} :
          /\ renderEffects(call)
          /\ notes' = IF msg = NoError
                      THEN (call.copyPath :>
                              buildNoteContent(settings, call.file,
                                               call.kind, TRUE, call.extract))
                           @@ notes
                      ELSE notes
          /\ cache' = IF msg = NoError
                      THEN (call.copyPath :> <<>>) @@ cache ELSE cache
          /\ calls' = [calls EXCEPT ![p] = next]
          /\ lastRun' = IF next.pc = "done" THEN Returned(next) ELSE lastRun
          /\ UNCHANGED <<settings, media, probe, phase, notices, scan, runs, ioFailures>>

\* vault.create or vault.modify fails with an unexpected storage error
WriteFails(p) ==
    /\ calls[p].pc \in {"modify", "create", "copy"}
    /\ ~calls[p].loading.active
    /\ ioFailures < MaxIoFailures
    /\ \E call \in {calls[p]} :
       \E next \in {[call EXCEPT
                        !.pc = "done", !.outcome = "failed",
                        !.renders = call.renders + 1,
                        !.tried = IF call.pc = "copy"
                                  THEN Append(call.tried, call.copyPath)
                                  ELSE call.tried,
                        !.error = MsgIoError]} :
          /\ ioFailures' = ioFailures + 1
          /\ renderEffects(call)
          /\ calls' = [calls EXCEPT ![p] = next]
          /\ lastRun' = Returned(next)
          /\ UNCHANGED <<settings, media, probe, phase, notices, scan, notes, cache, runs>>

NoticePdfExtractionFailed == "Failed to extract PDF page."

\* buildNoteContent of the pending write: extractPdfFirstPage catches an
\* error (after or before its ensureFolderExists) and shows a notice, or
\* readBinary / extractExifData throws for an image and the error is logged
ExtractionFails(p) ==
    /\ calls[p].pc \in {"modify", "create", "copy"}
    /\ ~calls[p].loading.active
    /\ calls[p].extract = "none"
    /\ ioFailures < MaxIoFailures
    /\ \E call \in {calls[p]} :
       \E image \in {thumbPath(settings, call.file)} :
          /\ \/ call.kind = KindImage
             \/ call.kind = KindPdf /\ image \notin thumbs
          /\ ioFailures' = ioFailures + 1
          /\ calls' = [calls EXCEPT ![p].extract = "failed"]
          /\ notices' = IF call.kind = KindPdf
                        THEN notices \cup {NoticePdfExtractionFailed}
                        ELSE notices
          /\ \E chain \in {<<>>} \cup
                  {IF call.kind = KindPdf
                   THEN ensureChain(parentPath(image), ensuredFolders)
                   ELSE <<>>} :
             \E visited \in {{chain[i] : i \in 1..Len(chain)}} :
                /\ folders' = folders \cup visited
                /\ ensuredFolders' = ensuredFolders \cup visited
          /\ UNCHANGED <<settings, media, probe, phase, scan, notes, cache,
                         templateCache, thumbs, runs, lastRun>>

\* the metadata cache catches up with the content of a note
CacheRefresh(path) ==
    /\ path \in DOMAIN notes
    /\ cache[path] # parsedFrontmatter(notes[path])
    /\ cache' = [cache EXCEPT ![path] = parsedFrontmatter(notes[path])]
    /\ UNCHANGED <<settings, media, probe, phase, notices, scan, folders, ensuredFolders, notes, templateCache,
                   thumbs, calls, runs, ioFailures, lastRun>>

\* a file appears at the path a copy loop is about to create: another
\* device or program writes into the vault between the computation of the
\* path and the create call
ExternalCreate(p) ==
    LET path == calls[p].copyPath
    IN  /\ calls[p].pc = "copy"
        /\ path \notin occupiedPaths(notes, folders, thumbs)
        /\ notes' = (path :> UserNote) @@ notes
        /\ cache' = (path :> <<>>) @@ cache
        /\ UNCHANGED <<settings, media, probe, phase, notices, scan, folders, ensuredFolders, templateCache,
                       thumbs, calls, runs, ioFailures, lastRun>>

Step(p) ==
    \/ EnsureFolder(p)
    \/ CheckStatus(p)
    \/ SearchNotes(p)
    \/ \E c \in calls[p].cands : IndexCandidate(p, c)
    \/ Modify(p)
    \/ CreateBase(p)
    \/ CreateCopy(p)

Fault(p) ==
    \/ EnsureFolderFails(p)
    \/ WriteFails(p)
    \/ ExtractionFails(p)

Trigger ==
    \/ \E p \in Procs, f \in media, k \in MediaKind : Scan(p, f, k)
    \/ \E p \in Procs, f \in media : FileCreated(p, f)

Next ==
    \/ Trigger
    \/ \E p \in Procs : Step(p)
    \/ \E path \in DOMAIN notes : CacheRefresh(path)

\* interleaved processMedia invocations on a storage that does not fail
Spec == Init /\ [][Next]_vars

FaultNext ==
    \/ Next
    \/ \E p \in Procs : Fault(p)

\* the same with unexpected storage failures
FaultSpec == Init /\ [][FaultNext]_vars

(***************************************************************************)
(* One invocation in its copy loop against a vault into which other        *)
(* programs write.                                                         *)
(***************************************************************************)
LoopInit ==
    /\ Init
    /\ DOMAIN notes = UserNotePaths(settings, media)

LoopStart ==
    /\ runs = 0
    /\ \E f \in media, k \in MediaKind : Scan(1, f, k)

LoopStep ==
    \/ EnsureFolder(1)
    \/ CheckStatus(1)
    \/ SearchNotes(1)
    \/ \E c \in calls[1].cands : IndexCandidate(1, c)
    \/ CreateCopy(1)
    \/ WriteFails(1)

LoopNext ==
    \/ LoopStart
    \/ LoopStep
    \/ ExternalCreate(1)

\* the event loop resumes every invocation whose storage call has completed
LoopSpec == LoopInit /\ [][LoopNext]_vars /\ WF_vars(LoopStep)

(***************************************************************************)
(* getNextCopyNotePath applied to vaults that hold any of the base note    *)
(* and its first copies, and again after the path it returned was taken.   *)
(***************************************************************************)
MaxCopies == 3

BasePngA == <<"P","N","G","-","a">>
BaseImgPhoto == <<"I","M","G","-","p","h","o","t","o">>

CopyPathFolders == {<<>>, FolderI, FolderP}
CopyPathBases == {BasePngA, BaseImgPhoto}

CopyPathInit ==
    /\ settings = DefaultSettings
    /\ media = {FileRootA}
    /\ \E folder \in CopyPathFolders, baseName \in CopyPathBases :
          LET prefix == IF folder # <<>> THEN folder \o <<"/">> ELSE <<>>
              universe == {prefix \o baseName \o MdSuffix}
                  \cup {copyCandidate(prefix, baseName, i) : i \in 1..MaxCopies}
          IN  /\ \E present \in SUBSET universe :
                    /\ notes = [q \in present |-> UserNote]
                    /\ cache = [q \in present |-> <<>>]
              /\ folders = {folder} \ {<<>>}
              /\ calls = [p \in Procs |->
                    IF p = 1
                    THEN [IdleCall EXCEPT !.targetFolder = folder,
                                          !.baseName = baseName]
                    ELSE IdleCall]
    /\ ensuredFolders = {}
    /\ templateCache = NoTemplates
    /\ thumbs = {}
    /\ runs = 0
    /\ ioFailures = 0
    /\ lastRun = NoRun
    /\ phase = "ready"
    /\ notices = {}
    /\ scan = NoScan
    /\ probe = NoProbe

\* const copyPath = this.getNextCopyNotePath(targetFolder, baseName)
ApplyNextCopyPath ==
    LET call == calls[1]
        occupied == occupiedPaths(notes, folders, thumbs)
    IN  /\ \/ call.pc = "idle"
           \/ call.pc = "copy" /\ call.copyPath \in occupied
        /\ calls' = [calls EXCEPT ![1] =
              [call EXCEPT !.pc = "copy",
                           !.copyPath = getNextCopyNotePath(
                               occupied, call.targetFolder, call.baseName)]]
        /\ UNCHANGED <<settings, media, probe, phase, notices, scan, vaultVars, runs, ioFailures, lastRun>>

CopyPathTaken ==
    /\ Cardinality(DOMAIN notes) <= MaxCopies + 1
    /\ ExternalCreate(1)

CopyPathNext ==
    \/ ApplyNextCopyPath
    \/ CopyPathTaken

CopyPathSpec == CopyPathInit /\ [][CopyPathNext]_vars

(***************************************************************************)
(* Properties.                                                             *)
(***************************************************************************)
Done(p) == calls[p].pc = "done"

\* the call went through the body of processMedia
Processed(p) == Done(p) /\ calls[p].outcome # "skipped"

\* path names a copy of baseName in folder
isCopyPathOf(path, folder, baseName) ==
    /\ normalizeFolderPath(parentPath(path)) = folder
    /\ startsWith(fileBasename(path),
                  baseName \o <<" ","(","c","o","p","y"," ">>)

\* C1: idempotence.  A processMedia call that runs alone, directly after a
\* completed call for the same file and kind, creates no note and no copy:
\* when it returns, the set of note paths is the set it found.
C1_SecondRunCreatesNothing ==
    \A p \in Procs :
        (Done(p) /\ calls[p].repeat /\ calls[p].alone)
            => /\ DOMAIN notes = calls[p].before
               /\ calls[p].created = {}

\* C2: when the only note linked to the file is a copy note in the target
\* folder, a processMedia call that runs alone rewrites that note and
\* creates no note.
C2_CopyNoteUpdatedInPlace ==
    \A p \in Procs :
        LET call == calls[p]
            copies == {q \in call.linked :
                          isCopyPathOf(q, call.targetFolder, call.baseName)}
        IN  (/\ Processed(p)
             /\ call.alone
             /\ Cardinality(call.linked) = 1
             /\ copies = call.linked)
                => /\ call.created = {}
                   /\ call.modified = call.linked

\* C3: in every reachable state, for every media file, at most one note of
\* the folder of its kind is linked to the file.
C3_AtMostOneMatchingNote ==
    \A f \in media :
        LET folder == searchIdentity(settings, f).folder
        IN  Cardinality({q \in DOMAIN notes :
                /\ linksTo(notes, q, f)
                /\ normalizeFolderPath(parentPath(q)) = folder}) <= 1

\* C4: no silent overwrite.  Every step that changes the content of an
\* existing note is the update step of a call for file f on a note that was
\* linked to f.
C4_OnlyNotesOfTheFileAreModified ==
    [][\A path \in DOMAIN notes :
          notes'[path] # notes[path]
              => \E p \in Procs :
                    /\ calls[p].pc = "modify"
                    /\ calls[p].existing = path
                    /\ linksTo(notes, path, calls[p].file)]_vars

C6_EachFileGetsItsNote ==
    \A p, q \in Procs :
        (/\ p # q
         /\ Processed(p) /\ Processed(q)
         /\ calls[p].file # calls[q].file
         /\ calls[p].status = StatusNotFound
         /\ calls[q].status = StatusNotFound
         /\ calls[p].error = NoError
         /\ calls[q].error = NoError)
            => /\ \E path \in DOMAIN notes : linksTo(notes, path, calls[p].file)
               /\ \E path \in DOMAIN notes : linksTo(notes, path, calls[q].file)

\* the copy loop of a call: no attempt after a success or after an error
\* that is not a conflict, and never more than MaxAttempts attempts
CopyLoopBounded(p) ==
    LET call == calls[p]
    IN  /\ Len(call.tried) <= MaxAttempts
        /\ call.pc = "copy"
              => /\ call.created = {}
                 /\ call.error = NoError
                 /\ Len(call.tried) = call.attempts
        /\ (Done(p) /\ call.tried # <<>>)
              => /\ call.created \subseteq {call.tried[Len(call.tried)]}
                 /\ call.outcome = "copied" <=> call.created # {}
                 /\ call.outcome = "failed" <=> call.error # NoError
                 /\ call.outcome = "exhausted"
                        <=> (call.created = {} /\ call.error = NoError)
                 /\ call.outcome = "exhausted" => Len(call.tried) = MaxAttempts

\* C7: with the canonical path held by an unrelated note and no note linked
\* to the file, a call makes at most 100 create attempts for copies, makes
\* none after the first success or the first error that is not 'already
\* exists', and every call that enters the loop returns.
C7_CopyLoopStops ==
    /\ [](\A p \in Procs : CopyLoopBounded(p))
    /\ \A p \in Procs : (calls[p].pc = "copy") ~> Done(p)

\* every one of the 100 attempts met a conflict and the call returned
C7_Witness ==
    /\ Done(1)
    /\ calls[1].outcome = "exhausted"
    /\ Len(calls[1].tried) = MaxAttempts
    /\ calls[1].created = {}

\* C8: in the copy loop no path is tried twice; after a conflict the next
\* attempt goes to a path different from the one that just failed.
C8_ConflictMovesToAnotherPath ==
    \A p \in Procs :
        LET call == calls[p]
            n == Len(call.tried)
        IN  /\ \A i, j \in 1..n : i < j => call.tried[i] # call.tried[j]
            /\ (call.pc = "copy" /\ n > 0) => call.copyPath # call.tried[n]

\* a conflict was followed by an attempt on another path
C8_Witness ==
    /\ Len(calls[1].tried) >= 2
    /\ calls[1].tried[1] \in DOMAIN notes
    /\ calls[1].tried[1] \notin calls[1].created
    /\ calls[1].tried[2] # calls[1].tried[1]

\* '{folder}/{baseName} (copy n).md', the folder segment left out when the
\* folder is empty
CopyPathText(folder, baseName, n) ==
    (IF folder = <<>> THEN <<>> ELSE folder \o <<"/">>)
        \o baseName \o <<" ","(","c","o","p","y"," ">> \o decimal(n)
        \o <<")",".","m","d">>

ImgPhotoNotes ==
    {<<"I","M","G","-","p","h","o","t","o",".","m","d">>,
     <<"I","M","G","-","p","h","o","t","o"," ","(","c","o","p","y"," ","1",")",
       ".","m","d">>}

ImgPhotoCopy2 ==
    <<"I","M","G","-","p","h","o","t","o"," ","(","c","o","p","y"," ","2",")",
      ".","m","d">>

C10_MatchesReturnsUntouched ==
    [][\A p \in Procs :
          (/\ calls[p].pc = "status"
           /\ calls'[p].pc # "status"
           /\ noteStatus(media, notes, otherEntries, cache, calls[p].notePath,
                         calls[p].file.path) = StatusMatches)
              => /\ calls'[p].pc = "done"
                 /\ UNCHANGED vaultVars
                 /\ calls'[p].renders = 0
                 /\ calls'[p].created = {}
                 /\ calls'[p].modified = {}]_vars

\* a call has returned on status matches
C10_Witness ==
    \E p \in Procs :
        /\ Done(p)
        /\ calls[p].status = StatusMatches
        /\ calls[p].notePath \in DOMAIN notes
        /\ calls[p].renders = 0

(***************************************************************************)
(* The 'Run' buttons of the settings tab: processMedia for every file of   *)
(* the kind's extensions, whatever its folder.                             *)
(***************************************************************************)
SettingsRun(p, file, kind) ==
    /\ handlersRegistered
    /\ getExtensions(settings, kind) # {}
    /\ matchesExtension(settings, file.extension, kind)
    /\ processMediaEntry(p, file, kind, getTargetFolder(settings, kind), FALSE)
    /\ UNCHANGED scan

\* image notes are limited to the files of folder 's'
WhitelistSettings ==
    [DefaultSettings EXCEPT !.imageSourceFolders = {<<"s">>}]

GateInit ==
    InitFrom([settings |-> WhitelistSettings, media |-> {FileRootA, FileSubA}])

GateNext ==
    \/ \E p \in Procs, f \in media, k \in MediaKind : SettingsRun(p, f, k)
    \/ \E p \in Procs : Step(p)
    \/ \E path \in DOMAIN notes : CacheRefresh(path)

\* the settings-tab buttons on a vault with a source-folder whitelist
GateSpec == GateInit /\ [][GateNext]_vars

\* the kind has a whitelist and the file lies in none of its folders
OutOfScope(cfg, file, kind) ==
    /\ getAllowedFolders(cfg, kind) # {}
    /\ \A folder \in getAllowedFolders(cfg, kind) :
          LET prefix == toLowerCase(folder) \o <<"/">>
          IN  ~startsWith(toLowerCase(file.path), prefix)

\* C11: a processMedia call without force on a file outside every
\* whitelisted folder of its kind returns in its first step: the step leaves
\* folders, ensured folders, notes, caches and thumbnails unchanged, and the
\* call has created, modified and rendered nothing.
C11_IneligibleCallTouchesNothing ==
    [][\A p \in Procs :
          (/\ calls'[p] # calls[p]
           /\ calls'[p].pc # "idle"
           /\ ~calls'[p].force
           /\ OutOfScope(settings, calls'[p].file, calls'[p].kind))
              => /\ calls'[p].pc = "done"
                 /\ calls'[p].outcome = "skipped"
                 /\ calls'[p].created = {}
                 /\ calls'[p].modified = {}
                 /\ calls'[p].renders = 0
                 /\ UNCHANGED vaultVars]_vars

\* a call on the file of the vault root, outside folder 's', has returned
C11_Witness ==
    \E p \in Procs :
        /\ Done(p)
        /\ calls[p].file = FileRootA
        /\ OutOfScope(settings, FileRootA, calls[p].kind)
        /\ calls[p].outcome = "skipped"
        /\ folders = {<<"s">>}

(***************************************************************************)
(* A vault whose note folders are all left blank, with one file of every   *)
(* kind in folder 's'.                                                     *)
(***************************************************************************)
ExtDoc == <<"d","o","c">>

FilePdf ==
    [path |-> <<"s","/","b",".","p","d","f">>, basename |-> <<"b">>,
     extension |-> ExtPdf, parent |-> <<"s">>]

FileDoc ==
    [path |-> <<"s","/","d",".","d","o","c">>, basename |-> <<"d">>,
     extension |-> ExtDoc, parent |-> <<"s">>]

BlankSettings ==
    [DefaultSettings EXCEPT !.imageNoteFolder = <<>>,
                            !.pdfNoteFolder = <<>>,
                            !.otherDigitalAssetsNoteFolder = <<>>,
                            !.otherExtensions = {ExtDoc}]

BlankInit ==
    /\ InitFrom([settings |-> BlankSettings,
                 media |-> {FileSubA, FilePdf, FileDoc}])
    /\ DOMAIN notes \subseteq
          {computePrimaryNotePath(BlankSettings, FileSubA, KindImage,
                                  FileSubA.parent).notePath}

BlankNext ==
    \/ Trigger
    \/ \E p \in Procs, f \in media, k \in MediaKind : SettingsRun(p, f, k)
    \/ \E p \in Procs : Step(p)
    \/ \E path \in DOMAIN notes : CacheRefresh(path)

\* scans, buttons and file-created events with blank note folders
BlankSpec == BlankInit /\ [][BlankNext]_vars

\* C12: with a blank target folder of the kind, every trigger (scan command,
\* settings button, file-created event) hands the file to processMedia, which
\* works in the parent folder of the file: no trigger skips the file, and
\* every note created lies in the parent folder of the file.
C12_BlankFolderFallsBackToParent ==
    \A p \in Procs :
        LET call == calls[p]
        IN  (/\ call.pc # "idle"
             /\ trim(getTargetFolder(settings, call.kind)) = <<>>)
                => /\ call.outcome # "ignored"
                   /\ call.targetFolder = normalizeFolderPath(call.file.parent)
                   /\ \A q \in call.created :
                         parentPath(q) = normalizeFolderPath(call.file.parent)

(***************************************************************************)
(* processMedia invocations one after the other on a storage that may      *)
(* fail.                                                                   *)
(***************************************************************************)
FailStart == \E f \in media, k \in MediaKind : Scan(1, f, k)

FailNext ==
    \/ FailStart
    \/ Step(1)
    \/ Fault(1)
    \/ \E path \in DOMAIN notes : CacheRefresh(path)

FailSpec == Init /\ [][FailNext]_vars

\* a folder and its ancestors
RECURSIVE folderChain(_)
folderChain(normalized) ==
    IF normalized = <<>> THEN {}
    ELSE {normalized} \cup folderChain(parentPath(normalized))

\* the call is past the folder step of processMedia
PastFolderStep(p) ==
    /\ calls[p].pc \notin {"idle", "ensure"}
    /\ calls[p].outcome \notin {"skipped", "ignored"}

\* C13: once a call is past its folder step, the target folder and every
\* ancestor of it exist in the vault; and a folder is never created before
\* its parent folder exists.
C13_FolderChainExists ==
    /\ [](\A p \in Procs :
            PastFolderStep(p)
                => folderChain(calls[p].targetFolder) \subseteq folders)
    /\ [][\A created \in folders' \ folders :
              parentPath(created) = <<>> \/ parentPath(created) \in folders']_vars

\* C14: when the create of the canonical note fails with an error that is
\* no conflict, the error is logged and the call ends there: no note is
\* created, no copy path is tried, and the notes are the ones from before.
C14_FailedBaseCreateEnds ==
    [][\A p \in Procs :
          (calls[p].pc = "create" /\ calls'[p].error # NoError)
              => /\ calls'[p].pc = "done"
                 /\ calls'[p].outcome = "failed"
                 /\ ~isAlreadyExistsError(calls'[p].error)
                 /\ calls'[p].created = {}
                 /\ calls'[p].tried = <<>>
                 /\ notes' = notes]_vars

C14_Witness ==
    \E p \in Procs :
        /\ calls[p].pc = "done"
        /\ calls[p].status = StatusNotFound
        /\ calls[p].existing = <<>>
        /\ calls[p].error = MsgNoEntry
        /\ calls[p].renders = 1
        /\ DOMAIN notes = calls[p].before

(***************************************************************************)
(* The scan loops: the three scan commands, the 'Run' buttons of the       *)
(* settings tab and createNotesForFolder.  Each builds its list of files,  *)
(* calls processMedia for one file after the other inside a try/catch and  *)
(* ends with a notice.                                                     *)
(***************************************************************************)
NoticeNothingToScan == "nothing to scan"
NoticeScanning == "scanning"
NoticeScanComplete == "scan complete"

ScanOrigins == {"command", "settings", "folder"}

ScanFolders == {<<"s">>}

\* folder.children: the files directly inside folder
childFiles(folder) ==
    {g \in media : normalizeFolderPath(g.parent) = folder}

\* folder.children: the folders directly inside folder
childFolders(folder) ==
    {d \in UNION {folderChain(normalizeFolderPath(g.parent)) : g \in media} :
        parentPath(d) = folder}

\* the queue of createNotesForFolder: it starts with the children of folder,
\* and a folder taken from it is replaced by its children
RECURSIVE filesBelow(_)
filesBelow(folder) ==
    childFiles(folder) \cup UNION {filesBelow(d) : d \in childFolders(folder)}

\* as scanForce, but no loop passes the force option
scanForceNever(via) == FALSE

\* { force: true } is the option of createNotesForFolder only
scanForce(via) == via = "folder"

\* the files a scan loop visits, each with the kind it is processed as
scanTargets(via, kind, folder) ==
    IF via = "command"
    THEN {[file |-> f, kind |-> kind] :
            f \in {g \in media :
                     /\ matchesExtension(settings, g.extension, kind)
                     /\ isSourceAllowed(settings, g, kind)}}
    ELSE IF via = "settings"
    THEN {[file |-> f, kind |-> kind] :
            f \in {g \in media :
                     matchesExtension(settings, g.extension, kind)}}
    ELSE {[file |-> f, kind |-> resolveKind(settings, f)] :
            f \in {g \in filesBelow(folder) :
                     resolveKind(settings, g) # NoKind}}

\* the orders in which the vault may list the files
Listings(targets) ==
    {list \in [1..Cardinality(targets) -> targets] :
        \A t \in targets : \E i \in DOMAIN list : list[i] = t}

\* as loopCatches, but an error ends the loop
loopCatchesNothing(error) == error = NoError

\* try { await processMedia(...) } catch (e) { console.error(...) }: the
\* loop goes on after a call that ended with error
loopCatches(error) == TRUE

\* the call of iteration scan.next - 1 has returned
iterationOver ==
    /\ ~InFlight(1)
    /\ scan.next > 1 => loopCatches(calls[1].error)

\* the iterations known to have ended with an error
thrownSoFar ==
    IF scan.next > 1 /\ calls[1].error # NoError
    THEN scan.thrown \cup {scan.next - 1} ELSE scan.thrown

ScanBegin(via, kind, folder) ==
    /\ handlersRegistered
    /\ scan.state # "running"
    /\ ~InFlight(1)
    /\ \E targets \in {scanTargets(via, kind, folder)} :
          IF \/ via # "folder" /\ getExtensions(settings, kind) = {}
             \/ via = "folder" /\ targets = {}
          THEN /\ notices' = notices \cup {NoticeNothingToScan}
               /\ scan' = NoScan
          ELSE /\ runs + Cardinality(targets) <= MaxRuns
               /\ notices' = notices \cup {NoticeScanning}
               /\ \E list \in Listings(targets) :
                     scan' = [state |-> "running", list |-> list, next |-> 1,
                              thrown |-> {}, force |-> scanForce(via),
                              folder |-> folder]
    /\ UNCHANGED <<settings, media, probe, phase, vaultVars, calls, runs,
                   ioFailures, lastRun>>

ScanInvoke ==
    /\ scan.state = "running"
    /\ scan.next <= Len(scan.list)
    /\ iterationOver
    /\ \E target \in {scan.list[scan.next]} :
          processMediaEntry(1, target.file, target.kind,
                            getTargetFolder(settings, target.kind), scan.force)
    /\ scan' = [scan EXCEPT !.next = scan.next + 1, !.thrown = thrownSoFar]

ScanComplete ==
    /\ scan.state = "running"
    /\ scan.next > Len(scan.list)
    /\ iterationOver
    /\ notices' = notices \cup {NoticeScanComplete}
    /\ scan' = [scan EXCEPT !.state = "complete", !.thrown = thrownSoFar]
    /\ UNCHANGED <<settings, media, probe, phase, vaultVars, calls, runs,
                   ioFailures, lastRun>>

BatchInit ==
    InitFrom([settings |-> DefaultSettings,
              media |-> {FileRootA, FileSubA, FilePdf}])

BatchProgress ==
    \/ ScanInvoke
    \/ ScanComplete
    \/ Step(1)

BatchNext ==
    \/ \E via \in ScanOrigins, kind \in MediaKind, folder \in ScanFolders :
          ScanBegin(via, kind, folder)
    \/ BatchProgress
    \/ Fault(1)
    \/ \E path \in DOMAIN notes : CacheRefresh(path)

\* a running loop and a running call take their next step
BatchSpec == BatchInit /\ [][BatchNext]_vars /\ WF_vars(BatchProgress)

\* C15: a scan loop calls processMedia for the files of its list in list
\* order, whatever happened to the files before, and a running scan always
\* reaches its completion step.
C15_ScanSurvivesFailures ==
    /\ [](scan.state = "running" /\ scan.next > 1
            => /\ calls[1].file = scan.list[scan.next - 1].file
               /\ calls[1].kind = scan.list[scan.next - 1].kind)
    /\ [](scan.state = "complete"
            => /\ scan.next = Len(scan.list) + 1
               /\ NoticeScanComplete \in notices)
    /\ (scan.state = "running") ~> (scan.state = "complete")

\* a scan of two files is complete, and the call for its first file failed
C15_Witness ==
    /\ scan.state = "complete"
    /\ Len(scan.list) = 2
    /\ 1 \in scan.thrown
    /\ calls[1].file = scan.list[2].file
    /\ calls[1].pc = "done"
    /\ calls[1].outcome \notin {"none", "skipped", "failed"}

(***************************************************************************)
(* onload: the settings are loaded, the PDF worker is initialised, and     *)
(* only then are the commands, the 'create' handler and the settings tab   *)
(* registered.                                                             *)
(***************************************************************************)
NoticeWorkerFailed == "PDF worker script could not be inlined."

OnloadInit ==
    /\ \E scenario \in Scenarios : StateFrom(scenario)
    /\ phase = "loading"

\* initPdfWorker returns: onload goes on to register everything
WorkerReady ==
    /\ phase = "loading"
    /\ phase' = "ready"
    /\ UNCHANGED <<settings, media, probe, notices, scan, vaultVars, calls, runs,
                   ioFailures, lastRun>>

\* initPdfWorker throws: new Notice(error.message); return
WorkerFails ==
    /\ phase = "loading"
    /\ phase' = "failed"
    /\ notices' = notices \cup {NoticeWorkerFailed}
    /\ UNCHANGED <<settings, media, probe, scan, vaultVars, calls, runs,
                   ioFailures, lastRun>>

OnloadNext ==
    \/ WorkerReady
    \/ WorkerFails
    \/ \E f \in media, k \in MediaKind : Scan(1, f, k)
    \/ \E f \in media : FileCreated(1, f)
    \/ \E f \in media, k \in MediaKind : SettingsRun(1, f, k)
    \/ Step(1)
    \/ \E path \in DOMAIN notes : CacheRefresh(path)

OnloadSpec == OnloadInit /\ [][OnloadNext]_vars

\* C16: when the PDF worker fails to initialise during onload, the user is
\* shown the error, and from then on no processMedia invocation ever
\* starts: nothing that could trigger one has been registered.
C16_FailedWorkerLeavesPluginInert ==
    /\ [](phase = "failed"
            => /\ NoticeWorkerFailed \in notices
               /\ runs = 0
               /\ \A p \in Procs : calls[p] = IdleCall)
    /\ [][phase = "failed"
            => /\ phase' = "failed"
               /\ runs' = runs
               /\ calls' = calls
               /\ notes' = notes]_vars

C16_Witness ==
    /\ phase = "failed"
    /\ NoticeWorkerFailed \in notices
    /\ media # {}

(***************************************************************************)
(* The file 's/vacation.jpg' is added to a vault whose image notes are     *)
(* limited to folder 's'; the 'create' handler may run more than once for  *)
(* it, also while an earlier run is still in progress.                     *)
(***************************************************************************)
ExtJpg == <<"j","p","g">>

FileVacation ==
    [path |-> <<"s","/","v","a","c","a","t","i","o","n",".","j","p","g">>,
     basename |-> <<"v","a","c","a","t","i","o","n">>,
     extension |-> ExtJpg, parent |-> <<"s">>]

VacationSettings ==
    [DefaultSettings EXCEPT !.imageExtensions = {ExtJpg},
                            !.imageSourceFolders = {<<"s">>}]

\* '{imageFolder}/JPG-vacation.md' and '{imageFolder}/IMG-vacation.md'
JpgVacationNote ==
    FolderI \o <<"/","J","P","G","-">> \o FileVacation.basename \o MdSuffix

ImgVacationNote ==
    FolderI \o <<"/","I","M","G","-">> \o FileVacation.basename \o MdSuffix

VacationInit ==
    InitFrom([settings |-> VacationSettings, media |-> {FileVacation}])

VacationNext ==
    \/ \E p \in Procs : FileCreated(p, FileVacation)
    \/ \E p \in Procs : Step(p)
    \/ \E path \in DOMAIN notes : CacheRefresh(path)

VacationSpec == VacationInit /\ [][VacationNext]_vars

\* the 'create' handler has run to its end for the file at least once
VacationHandled ==
    \E p \in Procs :
        /\ calls[p].pc = "done"
        /\ calls[p].file = FileVacation
        /\ calls[p].outcome # "none"

\* the path is free, or holds a note the plugin wrote
NoUserNoteAt(path) == path \in DOMAIN notes => notes[path] # UserNote

\* C17 as stated: once the event is handled, the note
\* '{imageFolder}/IMG-vacation.md' exists and links to the file.
C17_ImgVacationCreated ==
    VacationHandled /\ NoUserNoteAt(JpgVacationNote)
        => /\ ImgVacationNote \in DOMAIN notes
           /\ linksTo(notes, ImgVacationNote, FileVacation)

\* C17 amended: unless the user has a note of their own at that path, once
\* the event is handled the note '{imageFolder}/JPG-vacation.md' exists and
\* links to the file, and however often the event is handled it is the only
\* note.
C17_JpgVacationCreatedOnce ==
    VacationHandled /\ NoUserNoteAt(JpgVacationNote)
        => /\ DOMAIN notes = {JpgVacationNote}
           /\ linksTo(notes, JpgVacationNote, FileVacation)
           /\ \A p \in Procs : calls[p].created \subseteq {JpgVacationNote}

\* the event has been handled twice, one after the other
C17_Witness ==
    /\ runs = 2
    /\ \A p \in Procs : ~InFlight(p)
    /\ calls[1].file = FileVacation
    /\ calls[1].outcome = "matched"
    /\ calls[1].before = {JpgVacationNote}
    /\ DOMAIN notes = {JpgVacationNote}
    /\ linksTo(notes, JpgVacationNote, FileVacation)

\* the notes a call has written
Written(p) == calls[p].created \cup calls[p].modified

\* the last rendering of the call lost its thumbnail or its EXIF data
ExtractionLost(p) ==
    /\ calls[p].pc = "done"
    /\ calls[p].extract = "failed"

\* C19: a call whose thumbnail or EXIF extraction failed still makes its
\* write attempt, and unless the write itself fails or meets a conflict the
\* note is written, linked to the file, with the cover of a PDF and the
\* EXIF fields of an image left empty.
C19_ExtractionFailureKeepsNote ==
    \A p \in Procs :
        ExtractionLost(p)
            => /\ calls[p].renders >= 1
               /\ calls[p].error = NoError
                     => \/ calls[p].outcome \in {"conflict", "exhausted"}
                        \/ /\ calls[p].outcome \in {"created", "copied", "updated"}
                           /\ Written(p) # {}
               /\ \A path \in Written(p) :
                     /\ path \in DOMAIN notes
                     /\ linksTo(notes, path, calls[p].file)
                     /\ calls[p].kind = KindPdf => notes[path].cover = <<>>
                     /\ calls[p].kind = KindImage => ~notes[path].exif

\* a PDF note was created without its cover
C19_Witness ==
    \E p \in Procs :
        /\ ExtractionLost(p)
        /\ calls[p].kind = KindPdf
        /\ calls[p].outcome = "created"
        /\ calls[p].notePath \in DOMAIN notes
        /\ notes[calls[p].notePath].cover = <<>>
        /\ NoticePdfExtractionFailed \in notices

(***************************************************************************)
(* Auto-create alone: the only trigger is the vault 'create' handler, on a *)
(* storage that may fail.                                                  *)
(***************************************************************************)
AutoInit ==
    InitFrom([settings |-> DefaultSettings, media |-> {FileSubA, FilePdf}])

AutoNext ==
    \/ \E f \in media : FileCreated(1, f)
    \/ Step(1)
    \/ Fault(1)
    \/ \E path \in DOMAIN notes : CacheRefresh(path)

AutoSpec == AutoInit /\ [][AutoNext]_vars

\* C20: while the file-created handler is the only trigger, no notice is
\* ever shown: failures are logged only.
C20_BackgroundFailuresAreSilent == notices = {}

(***************************************************************************)
(* loadTemplate with its read in flight, and the settings tab changing the *)
(* template path or the cover property while notes are being rendered.     *)
(***************************************************************************)
TemplateKinds == {KindImage}
TemplatePaths == {<<>>, <<"t">>, <<"u">>}
CoverProperties == {"cover", "thumb"}

\* loadTemplate finds no cached template and a user path: it starts
\* adapter.read(userPath) and waits
LoadTemplateBegin(p) ==
    /\ calls[p].pc \in {"modify", "create", "copy"}
    /\ ~calls[p].loading.active
    /\ calls[p].kind \notin DOMAIN templateCache
    /\ \E userPath \in {getUserTemplatePath(settings, calls[p].kind)} :
          /\ userPath # <<>>
          /\ calls' = [calls EXCEPT
                          ![p].loading = [active |-> TRUE, path |-> userPath]]
    /\ UNCHANGED <<settings, media, probe, phase, notices, scan, vaultVars, runs,
                   ioFailures, lastRun>>

\* the read returns: this.templateCache[kind] = content
LoadTemplateRead(p) ==
    /\ calls[p].loading.active
    /\ \E userPath \in {calls[p].loading.path} :
          templateCache' = (calls[p].kind :> cachedTemplate(userPath, userPath))
                              @@ templateCache
    /\ calls' = [calls EXCEPT ![p].loading = NoLoad]
    /\ UNCHANGED <<settings, media, probe, phase, notices, scan, folders,
                   ensuredFolders, notes, cache, thumbs, runs, ioFailures,
                   lastRun>>

\* the read throws: the bundled template is cached in its place
LoadTemplateReadFails(p) ==
    /\ calls[p].loading.active
    /\ ioFailures < MaxIoFailures
    /\ ioFailures' = ioFailures + 1
    /\ \E userPath \in {calls[p].loading.path} :
          templateCache' = (calls[p].kind :> cachedTemplate(userPath, <<>>))
                              @@ templateCache
    /\ calls' = [calls EXCEPT ![p].loading = NoLoad]
    /\ UNCHANGED <<settings, media, probe, phase, notices, scan, folders,
                   ensuredFolders, notes, cache, thumbs, runs, lastRun>>

\* clearTemplateCache(kind)
withoutTemplate(templates, kind) ==
    [k \in DOMAIN templates \ {kind} |-> templates[k]]

\* the settings tab: a new template path for the image notes
ChangeTemplatePath(kind, path) ==
    /\ handlersRegistered
    /\ kind = KindImage
    /\ settings' = [settings EXCEPT !.imageTemplatePath = trim(path)]
    /\ templateCache' = withoutTemplate(templateCache, kind)
    /\ UNCHANGED <<media, probe, phase, notices, scan, folders, ensuredFolders,
                   notes, cache, thumbs, calls, runs, ioFailures, lastRun>>

\* the settings tab: a new name for the cover property; clearTemplateCache()
ChangeCoverProperty(name) ==
    /\ handlersRegistered
    /\ settings' = [settings EXCEPT !.coverLinkProperty = name]
    /\ templateCache' = NoTemplates
    /\ UNCHANGED <<media, probe, phase, notices, scan, folders, ensuredFolders,
                   notes, cache, thumbs, calls, runs, ioFailures, lastRun>>

TemplateInit ==
    InitFrom([settings |-> [DefaultSettings EXCEPT !.imageTemplatePath = <<"t">>],
              media |-> {FileSubA}])

TemplateNext ==
    \/ \E f \in media, k \in MediaKind : Scan(1, f, k)
    \/ Step(1)
    \/ LoadTemplateBegin(1)
    \/ LoadTemplateRead(1)
    \/ LoadTemplateReadFails(1)
    \/ \E kind \in TemplateKinds, path \in TemplatePaths :
          ChangeTemplatePath(kind, path)
    \/ \E name \in CoverProperties : ChangeCoverProperty(name)
    \/ \E path \in DOMAIN notes : CacheRefresh(path)

TemplateSpec == TemplateInit /\ [][TemplateNext]_vars

\* C18: every template in the cache was loaded for the template path that
\* is set now; no change of the settings leaves a template of the old
\* setting behind.
C18_CacheFollowsSettings ==
    \A kind \in DOMAIN templateCache :
        templateCache[kind].setting = getUserTemplatePath(settings, kind)


(***************************************************************************)
(* createNotesForFolder, the folder action of the file explorer, in a      *)
(* vault where the source-folder whitelists name a folder that holds no    *)
(* media file: 's' holds an image and a file of no media kind, 's/t' a     *)
(* PDF, and the vault root an image.                                       *)
(***************************************************************************)
FileDeepPdf ==
    [path |-> <<"s","/","t","/","b",".","p","d","f">>, basename |-> <<"b">>,
     extension |-> ExtPdf, parent |-> <<"s","/","t">>]

ElsewhereSettings ==
    [DefaultSettings EXCEPT !.imageSourceFolders = {<<"w">>},
                            !.pdfSourceFolders = {<<"w">>}]

ActionFolders == {<<"s">>, <<"s","/","t">>, <<"u">>}

FolderInit ==
    InitFrom([settings |-> ElsewhereSettings,
              media |-> {FileRootA, FileSubA, FileDeepPdf, FileDoc}])

FolderNext ==
    \/ \E folder \in ActionFolders : ScanBegin("folder", KindImage, folder)
    \/ ScanInvoke
    \/ ScanComplete
    \/ Step(1)

FolderSpec == FolderInit /\ [][FolderNext]_vars

\* the files of the vault whose path lies below folder
below(folder) == {g \in media : startsWith(g.path, folder \o <<"/">>)}

\* C21: the list of a folder action holds exactly the files below the folder
\* (subfolders included) whose extension classifies to a kind, each with its
\* kind; processMedia is called for the files of the list and for no other
\* file, each time with force = true, and no such call is skipped for the
\* source-folder whitelist.
C21_FolderActionForcesEveryMediaFile ==
    /\ [](scan.state \in {"running", "complete"}
            => /\ {scan.list[i] : i \in DOMAIN scan.list}
                     = {[file |-> f, kind |-> resolveKind(settings, f)] :
                          f \in {g \in below(scan.folder) :
                                   resolveKind(settings, g) # NoKind}}
               /\ scan.state = "complete" => scan.next = Len(scan.list) + 1)
    /\ [][runs' # runs
            => /\ scan.state = "running"
               /\ scan'.next = scan.next + 1
               /\ calls'[1].file = scan.list[scan.next].file
               /\ calls'[1].kind = scan.list[scan.next].kind
               /\ calls'[1].force
               /\ calls'[1].outcome # "skipped"]_vars

C21_Witness ==
    /\ scan.state = "complete"
    /\ scan.folder = <<"s">>
    /\ Len(scan.list) = 2
    /\ calls[1].pc = "done"
    /\ calls[1].file = FileDeepPdf
    /\ calls[1].outcome = "created"
    /\ ~isSourceAllowed(settings, FileDeepPdf, KindPdf)
    /\ ~isSourceAllowed(settings, FileSubA, KindImage)
    /\ FileDoc \in below(scan.folder)

(***************************************************************************)
(* A helper of the plugin called on its own: the vault and the plugin are  *)
(* at rest, probe holds the arguments and the answers of the vault, and    *)
(* the call stores what the helper returns.                                *)
(***************************************************************************)
ProbeInit(cfgs, mediaSet, inputs) ==
    /\ settings \in cfgs
    /\ media = mediaSet
    /\ notes = <<>>
    /\ cache = <<>>
    /\ folders = mediaFolders(media)
    /\ ensuredFolders = {}
    /\ templateCache = NoTemplates
    /\ thumbs = {}
    /\ calls = [p \in Procs |-> IdleCall]
    /\ runs = 0
    /\ ioFailures = 0
    /\ lastRun = NoRun
    /\ phase = "ready"
    /\ notices = {}
    /\ scan = NoScan
    /\ probe \in {[done |-> FALSE, in |-> input] : input \in inputs}

Returns(out) ==
    /\ ~probe.done
    /\ probe' = [done |-> TRUE, in |-> probe.in, out |-> out]
    /\ UNCHANGED <<settings, media, phase, notices, scan, vaultVars, calls,
                   runs, ioFailures, lastRun>>

(***************************************************************************)
(* noteStatus with the answers of the vault spelled out: the index entry   *)
(* at notePath, adapter.exists, the frontmatter of the metadata cache and  *)
(* the content vault.read returns.                                         *)
(***************************************************************************)
DefaultLinkProperty == <<"u","r","l">>

\* (this.settings.fileLinkProperty || 'url').trim() || 'url'
linkKey(property) ==
    IF trim(property) = <<>> THEN DefaultLinkProperty ELSE trim(property)

\* (cache as any)?.frontmatter?.[key]; undefined is the empty value
cachedValue(front, key) ==
    IF key \in DOMAIN front THEN front[key] ELSE <<>>

\* as isPropertyLine, but the letters of line and key keep their case
isPropertyLineExact(line, normalizedKey) ==
    startsWith(trimStart(line), normalizedKey \o <<":">>)

\* l.replace(/^\s+/, '').toLowerCase().startsWith(`${normalizedKey}:`)
isPropertyLine(line, normalizedKey) ==
    startsWith(toLowerCase(trimStart(line)), toLowerCase(normalizedKey) \o <<":">>)

\* yaml.split('\n').find(...): the first such line, or the empty string
findPropertyLine(lines, normalizedKey) ==
    The({IF found = {} THEN <<>>
         ELSE lines[CHOOSE i \in found : \A j \in found : i <= j] :
         found \in {{i \in DOMAIN lines : isPropertyLine(lines[i], normalizedKey)}}})

\* line.substring(line.indexOf(':') + 1).trim()
propertyValue(line) ==
    The({trim(SubSeq(line, (IF colons = {} THEN 0
                            ELSE CHOOSE i \in colons : \A j \in colons : i <= j) + 1,
                     Len(line))) :
         colons \in {{i \in DOMAIN line : line[i] = ":"}}})

\* the second try block of noteStatus: the property of the leading YAML
\* block of the content, compared with the target
diskStatus(mediaSet, disk, normalizedKey, targetPath) ==
    IF disk.throws \/ ~disk.yaml THEN StatusDifferent
    ELSE The({IF line = <<>> THEN StatusDifferent
              ELSE compare(mediaSet, propertyValue(line), targetPath) :
              line \in {findPropertyLine(disk.lines, normalizedKey)}})

\* noteStatus(notePath, targetPath), with the answers the vault gives for
\* notePath: status, and whether vault.read was called
noteStatusAnswered(mediaSet, in) ==
    IF in.entry = "none" THEN [status |-> StatusNotFound, read |-> FALSE]
    ELSE IF in.entry = "folder" THEN [status |-> StatusDifferent, read |-> FALSE]
    ELSE IF in.exists = "absent" THEN [status |-> StatusNotFound, read |-> FALSE]
    ELSE IF /\ ~in.cache.throws
            /\ compare(mediaSet, cachedValue(in.cache.front, linkKey(in.property)),
                       in.target) = StatusMatches
         THEN [status |-> StatusMatches, read |-> FALSE]
    ELSE [status |-> diskStatus(mediaSet, in.disk, linkKey(in.property), in.target),
          read |-> TRUE]

IndexEntries == {"none", "folder", "file"}

ExistsAnswers == {"present", "absent", "error"}

LinkProperties == {<<>>, DefaultLinkProperty, <<" ","U","r","l">>}

WikiSubA == <<"[","[","s","/","a",".","p","n","g","]","]">>

WikiRootA == <<"[","[","a",".","p","n","g","]","]">>

LinkValues == {WikiSubA, WikiRootA, FileSubA.path, <<"x">>}

\* frontmatter of the metadata cache: none, or the property with a value
\* under the key as the user wrote it
CacheAnswers ==
    {[throws |-> TRUE, front |-> <<>>], [throws |-> FALSE, front |-> <<>>]}
        \cup {[throws |-> FALSE, front |-> (key :> value)] :
                key \in {DefaultLinkProperty}, value \in LinkValues}

\* content of the note: unreadable, without YAML block, or a YAML block
\* without the property, with the property written in one of two ways, or
\* with the property under two spellings of the key
DiskAnswers ==
    {[throws |-> TRUE, yaml |-> FALSE, lines |-> <<>>],
     [throws |-> FALSE, yaml |-> FALSE, lines |-> <<>>],
     [throws |-> FALSE, yaml |-> TRUE, lines |-> <<<<"t",":"," ","x">>>>],
     [throws |-> FALSE, yaml |-> TRUE,
      lines |-> <<<<"U","r","l",":"," ","x">>, <<"u","r","l",":"," ">> \o WikiSubA>>]}
        \cup {[throws |-> FALSE, yaml |-> TRUE, lines |-> <<line>>] :
                line \in {<<"u","r","l",":"," ","\"">> \o value \o <<"\"">> :
                            value \in LinkValues}
                         \cup {<<" ","U","R","L",":">> \o value :
                                 value \in LinkValues}}

StatusInputs ==
    [entry : IndexEntries, exists : ExistsAnswers, property : LinkProperties,
     cache : CacheAnswers, disk : DiskAnswers,
     target : {FileRootA.path, FileSubA.path}]

StatusInit ==
    ProbeInit({DefaultSettings}, {FileRootA, FileSubA}, StatusInputs)

ApplyNoteStatus == Returns(noteStatusAnswered(media, probe.in))

StatusNext == ApplyNoteStatus

StatusSpec == StatusInit /\ [][StatusNext]_vars

\* the existence check was made and did not succeed
existsCheckFailed(in) == in.entry = "file" /\ in.exists # "present"

\* C22: noteStatus returns not-found when the index has no entry at the
\* path and whenever the on-disk existence check reports the file absent or
\* fails with an error; in every other case it returns matches or
\* exists-different.
C22_NotFoundWhenExistsCheckFails ==
    probe.done
        => IF probe.in.entry = "none" \/ existsCheckFailed(probe.in)
           THEN probe.out.status = StatusNotFound
           ELSE probe.out.status \in {StatusMatches, StatusDifferent}

\* the link property of the on-disk frontmatter matches the target
diskMatches(mediaSet, in) ==
    diskStatus(mediaSet, in.disk, linkKey(in.property), in.target) = StatusMatches

\* C23: noteStatus returns matches only if the link property of the
\* on-disk frontmatter of the note matches the target; a stale value of the
\* metadata cache does not make the note match.
C23_MatchesOnlyByDiskFrontmatter ==
    (probe.done /\ probe.out.status = StatusMatches)
        => diskMatches(media, probe.in)

\* the metadata cache gives a value that matches the target
cacheMatches(mediaSet, in) ==
    /\ ~in.cache.throws
    /\ compare(mediaSet, cachedValue(in.cache.front, linkKey(in.property)),
               in.target) = StatusMatches

\* the note is a file of the index and the existence check did not report
\* it absent
Compared(in) == in.entry = "file" /\ in.exists # "absent"

\* line i is a line of the property, the key read without regard to case
keyedLine(in, i) ==
    startsWith(toLowerCase(trimStart(in.disk.lines[i])),
               toLowerCase(linkKey(in.property)) \o <<":">>)

\* C24: the metadata cache is asked first and the YAML block of the content
\* second: vault.read is called exactly when the cache gave no matching
\* value, and then the note matches if the YAML line of the key (the first
\* one, the key read without regard to letter case) matches the target.
C24_CacheFirstThenYaml ==
    (probe.done /\ Compared(probe.in))
        => /\ probe.out.read <=> ~cacheMatches(media, probe.in)
           /\ cacheMatches(media, probe.in) => probe.out.status = StatusMatches
           /\ \A i \in DOMAIN probe.in.disk.lines :
                 (/\ ~probe.in.disk.throws
                  /\ probe.in.disk.yaml
                  /\ keyedLine(probe.in, i)
                  /\ \A j \in 1..(i - 1) : ~keyedLine(probe.in, j)
                  /\ compare(media, propertyValue(probe.in.disk.lines[i]),
                             probe.in.target) = StatusMatches)
                     => probe.out.status = StatusMatches

C24_Witness ==
    /\ probe.done
    /\ Compared(probe.in)
    /\ probe.in.property = DefaultLinkProperty
    /\ probe.in.cache = [throws |-> FALSE, front |-> (DefaultLinkProperty :> <<"x">>)]
    /\ probe.in.disk.lines = <<<<" ","U","R","L",":">> \o WikiSubA>>
    /\ probe.in.target = FileSubA.path
    /\ probe.out = [status |-> StatusMatches, read |-> TRUE]

AssetsPhoto ==
    [path |-> <<"a","s","s","e","t","s","/","p","h","o","t","o",".","p","n","g">>,
     basename |-> <<"p","h","o","t","o">>, extension |-> ExtPng,
     parent |-> <<"a","s","s","e","t","s">>]

AssetsOther ==
    [path |-> <<"a","s","s","e","t","s","/","o","t","h","e","r",".","p","n","g">>,
     basename |-> <<"o","t","h","e","r">>, extension |-> ExtPng,
     parent |-> <<"a","s","s","e","t","s">>]

\* the value noteStatus compares when the cache holds no frontmatter: the
\* one of the property line of the YAML block
decidingValue(in) ==
    stripQuotes(propertyValue(findPropertyLine(in.disk.lines, linkKey(in.property))))

\* the cache is silent and the content has a property line with a wiki link
DecidedByWikiLink(in) ==
    /\ Compared(in)
    /\ in.cache = [throws |-> FALSE, front |-> <<>>]
    /\ ~in.disk.throws
    /\ in.disk.yaml
    /\ findPropertyLine(in.disk.lines, linkKey(in.property)) # <<>>
    /\ wikiInner(decidingValue(in)) # <<>>

\* C25: a link value [[inner]] gives matches exactly when the link resolver
\* resolves inner to the file at the target path; '[[assets/photo.png]]'
\* matches 'assets/photo.png' and is exists-different against
\* 'assets/other.png'.
C25_WikiLinkMatchesByResolverOnly ==
    /\ (probe.done /\ DecidedByWikiLink(probe.in))
          => (probe.out.status = StatusMatches
                <=> probe.in.target
                      \in getFirstLinkpathDest(media, wikiInner(decidingValue(probe.in))))
    /\ compare({AssetsPhoto, AssetsOther},
               <<"[","[">> \o AssetsPhoto.path \o <<"]","]">>,
               AssetsPhoto.path) = StatusMatches
    /\ compare({AssetsPhoto, AssetsOther},
               <<"[","[">> \o AssetsPhoto.path \o <<"]","]">>,
               AssetsOther.path) = StatusDifferent

(***************************************************************************)
(* getIndexNotePath in a vault that holds notes from earlier runs: the     *)
(* canonical note of 'a.png' and two copies of it, each written for        *)
(* 'a.png', written for 's/a.png' or written by the user.  One call runs   *)
(* at a time and the metadata cache is up to date.  'png' is an image and  *)
(* a PDF extension, so a scan for PDFs checks the status of 'P/PNG-a.md'   *)
(* and then searches the image folder, where the canonical note may match. *)
(***************************************************************************)
EarlierNotePaths ==
    {<<"I","/","P","N","G","-","a",".","m","d">>,
     <<"I","/","P","N","G","-","a"," ","(","c","o","p","y"," ","1",")",".","m","d">>,
     <<"I","/","P","N","G","-","a"," ","(","c","o","p","y"," ","2",")",".","m","d">>}

EarlierNotes ==
    {UserNote} \cup {buildNoteContent(DefaultSettings, f, KindImage, FALSE, "none") :
                       f \in {FileRootA, FileSubA}}

IndexInit ==
    /\ settings = OverlapSettings
    /\ media = {FileRootA, FileSubA}
    /\ \E paths \in SUBSET EarlierNotePaths :
          /\ notes \in [paths -> EarlierNotes]
          /\ cache = [q \in paths |-> parsedFrontmatter(notes[q])]
    /\ folders = mediaFolders(media) \cup {FolderI}
    /\ ensuredFolders = {}
    /\ templateCache = NoTemplates
    /\ thumbs = {}
    /\ calls = [p \in Procs |-> IdleCall]
    /\ runs = 0
    /\ ioFailures = 0
    /\ lastRun = NoRun
    /\ phase = "ready"
    /\ notices = {}
    /\ scan = NoScan
    /\ probe = NoProbe

IndexNext ==
    \/ \E f \in media, kind \in {KindImage, KindPdf} : Scan(1, f, kind)
    \/ Step(1)

IndexSpec == IndexInit /\ [][IndexNext]_vars

\* the note at path matches the file of the call
matchesNow(path) ==
    noteStatus(media, notes, otherEntries, cache, path, calls[1].file.path)
        = StatusMatches

\* the notes getIndexNotePath looks at: those of the folder of the resolved
\* kind that carry the base name or start with the base name and ' ('
candidateNotes ==
    {c \in getFiles :
        /\ normalizeFolderPath(parentPath(c))
              = searchIdentity(settings, calls[1].file).folder
        /\ \/ fileBasename(c) = searchIdentity(settings, calls[1].file).baseName
           \/ startsWith(fileBasename(c),
                         searchIdentity(settings, calls[1].file).baseName
                             \o <<" ","(">>)}

\* C26: getIndexNotePath returns the canonical path whenever the canonical
\* note matches, also when copies match; otherwise the first candidate, in
\* the order of the enumeration, that matches; and null exactly when no
\* candidate matches.
C26_CanonicalFirstThenFirstMatch ==
    [][/\ (calls[1].pc = "index" /\ calls'[1].pc # "index")
            => indexNotePath(calls'[1].matches)
                  = IF matchesNow(searchIdentity(settings, calls[1].file).notePath)
                    THEN searchIdentity(settings, calls[1].file).notePath
                    ELSE <<>>
       /\ (calls[1].pc = "cands" /\ calls'[1] # calls[1])
            => \E c \in calls[1].cands \ calls'[1].cands :
                  indexNotePath(calls'[1].matches)
                     = IF indexNotePath(calls[1].matches) # <<>>
                       THEN indexNotePath(calls[1].matches)
                       ELSE IF matchesNow(c) THEN c ELSE <<>>
       /\ (calls[1].pc \in {"index", "cands"}
             /\ calls'[1].pc \notin {"index", "cands"})
            => /\ indexNotePath(calls'[1].matches) = <<>>
                    <=> \A c \in candidateNotes : ~matchesNow(c)
               /\ calls'[1].pc = "modify"
                    <=> indexNotePath(calls'[1].matches) # <<>>
               /\ calls'[1].pc = "modify"
                    => calls'[1].existing = indexNotePath(calls'[1].matches)]_vars

\* the search ends on the canonical note although a copy matches too
C26_Witness ==
    /\ calls[1].pc = "modify"
    /\ Len(calls[1].matches) = 2
    /\ calls[1].existing = calls[1].searchPath
    /\ calls[1].existing = calls[1].matches[1]
    /\ calls[1].matches[2] \in EarlierNotePaths

(***************************************************************************)
(* resolveKind called on its own, for every choice of the three extension  *)
(* lists over 'png', 'pdf' and 'PNG' and for files with the extension      *)
(* written in lower case, in upper case, not listed, or missing.           *)
(***************************************************************************)
ExtPngUpper == <<"P","N","G">>

ListedExtensions == {ExtPng, ExtPdf, ExtPngUpper}

KindSettings ==
    {[DefaultSettings EXCEPT !.imageExtensions = images,
                             !.pdfExtensions = pdfs,
                             !.otherExtensions = others] :
        images \in SUBSET ListedExtensions,
        pdfs \in SUBSET ListedExtensions,
        others \in SUBSET ListedExtensions}

\* the file 'a' of the vault root with the given extension
fileWithExtension(extension) ==
    [path |-> IF extension = <<>> THEN <<"a">> ELSE <<"a",".">> \o extension,
     basename |-> <<"a">>, extension |-> extension, parent |-> <<"/">>]

KindFiles ==
    {fileWithExtension(e) : e \in {<<>>, ExtPng, ExtPngUpper, ExtPdf, ExtDoc}}

KindInit == ProbeInit(KindSettings, {FileRootA}, KindFiles)

ApplyResolveKind == Returns(resolveKind(settings, probe.in))

KindNext == ApplyResolveKind

KindSpec == KindInit /\ [][KindNext]_vars

\* the extension of the probed file in lower case ('', 'png', 'pdf', 'doc')
probedExtension ==
    IF probe.in.extension = ExtPngUpper THEN ExtPng ELSE probe.in.extension

\* C27: resolveKind lower-cases the extension and returns image if it is in
\* the image list, else pdf if it is in the PDF list, else other if it is
\* in the other list, else null; an extension in several lists goes to the
\* earliest of image, pdf, other, and a file without extension gives null.
C27_KindByFirstListedSet ==
    probe.done
        => /\ probe.out = KindImage
                <=> /\ probedExtension # <<>>
                    /\ probedExtension \in settings.imageExtensions
           /\ probe.out = KindPdf
                <=> /\ probedExtension # <<>>
                    /\ probedExtension \notin settings.imageExtensions
                    /\ probedExtension \in settings.pdfExtensions
           /\ probe.out = KindOther
                <=> /\ probedExtension # <<>>
                    /\ probedExtension \notin settings.imageExtensions
                    /\ probedExtension \notin settings.pdfExtensions
                    /\ probedExtension \in settings.otherExtensions
           /\ probe.out = NoKind
                <=> \/ probedExtension = <<>>
                    \/ probedExtension \notin
                          (settings.imageExtensions \cup settings.pdfExtensions
                              \cup settings.otherExtensions)

C27_Witness ==
    /\ probe.done
    /\ probe.in.extension = ExtPngUpper
    /\ settings.imageExtensions = {ExtPng}
    /\ settings.pdfExtensions = {ExtPng, ExtPdf}
    /\ settings.otherExtensions = {ExtPng}
    /\ probe.out = KindImage

(***************************************************************************)
(* isPathWithinFolder and isSourceAllowed called on their own, for files   *)
(* in 'assets', 'Assets' and 'assets2', a file named 'assets', and folders *)
(* written with other letter case, with slashes around them, or blank.     *)
(***************************************************************************)
FolderAssets == <<"a","s","s","e","t","s">>

fileIn(folder, name) ==
    [path |-> IF folder = <<>> THEN name \o <<".","p","n","g">>
              ELSE folder \o <<"/">> \o name \o <<".","p","n","g">>,
     basename |-> name, extension |-> ExtPng,
     parent |-> IF folder = <<>> THEN <<"/">> ELSE folder]

WithinFiles ==
    {fileIn(FolderAssets, <<"x">>),
     fileIn(FolderAssets \o <<"2">>, <<"x">>),
     fileIn(<<"A">> \o Tail(FolderAssets), <<"x">>),
     fileIn(FolderAssets \o <<"/","t">>, <<"x">>),
     fileIn(<<>>, <<"x">>),
     [path |-> FolderAssets, basename |-> FolderAssets, extension |-> <<>>,
      parent |-> <<"/">>]}

WithinFolders ==
    {<<>>, <<" ">>, <<"/">>, FolderAssets, <<"A","S","S","E","T","S">>,
     <<"/">> \o FolderAssets \o <<"/">>, <<"\\">> \o FolderAssets,
     FolderAssets \o <<"2">>, <<"w">>}

WithinInputs ==
    [op : {"within"}, file : WithinFiles, folder : WithinFolders]

AllowedInputs ==
    [op : {"allowed"}, file : WithinFiles, kind : {KindImage}]

WhitelistChoices ==
    {[DefaultSettings EXCEPT !.imageSourceFolders = allowed] :
        allowed \in SUBSET {FolderAssets, <<"/">> \o FolderAssets \o <<"/">>,
                            FolderAssets \o <<"2">>, <<"w">>, <<"/">>}}

WithinInit ==
    \/ ProbeInit({DefaultSettings}, WithinFiles, WithinInputs)
    \/ ProbeInit(WhitelistChoices, WithinFiles, AllowedInputs)

ApplyIsPathWithinFolder ==
    /\ probe.in.op = "within"
    /\ Returns(isPathWithinFolder(probe.in.file.path, probe.in.folder))

ApplyIsSourceAllowed ==
    /\ probe.in.op = "allowed"
    /\ Returns(isSourceAllowed(settings, probe.in.file, probe.in.kind))

WithinNext ==
    \/ ApplyIsPathWithinFolder
    \/ ApplyIsSourceAllowed

WithinSpec == WithinInit /\ [][WithinNext]_vars

\* folder is blank once normalized, or path is the folder or lies below
\* it, letter case aside
contains(folder, path) ==
    \/ normalizeFolderPath(folder) = <<>>
    \/ toLowerCase(path) = toLowerCase(normalizeFolderPath(folder))
    \/ startsWith(toLowerCase(path),
                  toLowerCase(normalizeFolderPath(folder)) \o <<"/">>)

\* C28: isPathWithinFolder(file, folder) is true exactly when the folder
\* normalizes to the empty string, or the file path equals the folder, or the
\* file path starts with the folder and '/', letter case aside, so that
\* 'assets2/x.png' is not within 'assets'; isSourceAllowed(file, kind) is true
\* exactly when the whitelist of the kind is empty or one of its folders
\* contains the file.
C28_WithinFolderAndWhitelist ==
    /\ (probe.done /\ probe.in.op = "within")
          => /\ probe.out <=> contains(probe.in.folder, probe.in.file.path)
             /\ (/\ probe.in.file = fileIn(FolderAssets \o <<"2">>, <<"x">>)
                 /\ probe.in.folder = FolderAssets)
                   => ~probe.out
    /\ (probe.done /\ probe.in.op = "allowed")
          => (probe.out
                <=> \/ settings.imageSourceFolders = {}
                    \/ \E folder \in settings.imageSourceFolders :
                          contains(folder, probe.in.file.path))

C28_Witness ==
    /\ probe.done
    /\ probe.in.op = "allowed"
    /\ probe.in.file = fileIn(FolderAssets \o <<"2">>, <<"x">>)
    /\ settings.imageSourceFolders = {FolderAssets, <<"w">>}
    /\ probe.out = FALSE

(***************************************************************************)
(* normalizeFolderPath called on its own, for every string of at most      *)
(* MaxPathLen characters over a letter, the blank, '/' and '\'.            *)
(***************************************************************************)
MaxPathLen == 3

PathChars == {"a", " ", "/", "\\"}

RawPaths == UNION {[1..n -> PathChars] : n \in 0..MaxPathLen}

NormalizeInit == ProbeInit({DefaultSettings}, {FileRootA}, RawPaths)

ApplyNormalizeFolderPath == Returns(normalizeFolderPath(probe.in))

NormalizeNext == ApplyNormalizeFolderPath

NormalizeSpec == NormalizeInit /\ [][NormalizeNext]_vars

\* C29: for every input normalizeFolderPath returns a string without
\* backslash, without '/' at either end and without whitespace at either
\* end; the empty input gives the empty string.
C29_NormalizedFolderIsClean ==
    probe.done
        => /\ \A i \in DOMAIN probe.out : probe.out[i] # "\\"
           /\ probe.out # <<>>
                => /\ probe.out[1] \notin {"/"} \cup Whitespace
                   /\ probe.out[Len(probe.out)] \notin {"/"} \cup Whitespace
           /\ probe.in = <<>> => probe.out = <<>>

(***************************************************************************)
(* computePrimaryNotePath called on its own: files with an extension in    *)
(* lower case, in mixed case and without extension, every kind, folders    *)
(* written plainly, with slashes around them, nested or blank, both        *)
(* naming policies, and settings that differ in other fields.              *)
(***************************************************************************)
FileMixed ==
    [path |-> <<"s","/","b",".","J","p","G">>, basename |-> <<"b">>,
     extension |-> <<"J","p","G">>, parent |-> <<"s">>]

FileBare ==
    [path |-> <<"n">>, basename |-> <<"n">>, extension |-> <<>>,
     parent |-> <<"/">>]

IdentityFolders ==
    {<<>>, <<" ">>, FolderI, <<"/">> \o FolderI \o <<"/">>,
     FolderI \o <<"\\","s">>}

IdentityInputs ==
    [file : {FileRootA, FileMixed, FileBare}, kind : MediaKind,
     folder : IdentityFolders]

PolicyChoices ==
    {[cfg EXCEPT !.useSuffix = policy] :
        cfg \in {DefaultSettings, OverlapSettings, BlankFolderSettings},
        policy \in BOOLEAN}

IdentityInit == ProbeInit(PolicyChoices, {FileRootA}, IdentityInputs)

ApplyComputePrimaryNotePath ==
    Returns(computePrimaryNotePath(settings, probe.in.file, probe.in.kind,
                                   probe.in.folder))

IdentityNext == ApplyComputePrimaryNotePath

IdentitySpec == IdentityInit /\ [][IdentityNext]_vars

\* the extension of the probed file, or its kind when it has none, in upper
\* and in lower case
probedSource ==
    IF probe.in.file = FileRootA THEN [upper |-> <<"P","N","G">>, lower |-> ExtPng]
    ELSE IF probe.in.file = FileMixed THEN [upper |-> <<"J","P","G">>, lower |-> ExtJpg]
    ELSE IF probe.in.kind = KindImage
        THEN [upper |-> <<"I","M","A","G","E">>, lower |-> KindImage]
    ELSE IF probe.in.kind = KindPdf
        THEN [upper |-> <<"P","D","F">>, lower |-> KindPdf]
    ELSE [upper |-> <<"O","T","H","E","R">>, lower |-> KindOther]

\* the probed folder once normalized
probedFolder ==
    IF probe.in.folder \in {<<>>, <<" ">>} THEN <<>>
    ELSE IF probe.in.folder = FolderI \o <<"\\","s">> THEN FolderI \o <<"/","s">>
    ELSE FolderI

\* C30: baseName is the extension in upper case (the kind when the file has
\* no extension), '-' and the basename under the prefix policy, and the
\* basename, '.' and the extension (or kind) in lower case under the suffix
\* policy; notePath is the normalized folder, '/', the baseName and '.md',
\* without folder segment and without leading '/' when the normalized folder
\* is empty; nothing but file, kind, folder and policy enters the result.
C30_IdentityFromFileKindFolderPolicy ==
    probe.done
        => /\ probe.out.baseName
                = IF settings.useSuffix
                  THEN probe.in.file.basename \o <<".">> \o probedSource.lower
                  ELSE probedSource.upper \o <<"-">> \o probe.in.file.basename
           /\ probe.out.notePath
                = IF probedFolder = <<>>
                  THEN probe.out.baseName \o <<".","m","d">>
                  ELSE probedFolder \o <<"/">> \o probe.out.baseName
                           \o <<".","m","d">>
           /\ probe.out.notePath[1] # "/"

C30_Witness ==
    /\ probe.done
    /\ probe.in = [file |-> FileBare, kind |-> KindPdf, folder |-> <<" ">>]
    /\ settings = BlankFolderSettings
    /\ probe.out = [baseName |-> <<"P","D","F","-","n">>,
                    notePath |-> <<"P","D","F","-","n",".","m","d">>]

(***************************************************************************)
(* Rendering of a note: formatExposureTime, the replacements record of     *)
(* buildNoteContent, applyExifBlock and the loop of String.replace calls,  *)
(* on templates given as text.                                             *)
(***************************************************************************)
\* Math.round(a / b) for a >= 0 and b > 0
roundedQuotient(a, b) == (2 * a + b) \div (2 * b)

\* `${m / 1000}` for a number of thousandths m in 0..1000
thousandthsText(m) ==
    IF m % 1000 = 0 THEN decimal(m \div 1000)
    ELSE <<"0",".">> \o (IF m % 100 = 0 THEN decimal(m \div 100)
                    ELSE IF m % 10 = 0
                        THEN decimal((m \div 100) % 10) \o decimal((m \div 10) % 10)
                    ELSE decimal((m \div 100) % 10) \o decimal((m \div 10) % 10)
                             \o decimal(m % 10))

\* the exposure is a number of seconds num / den (den > 0), or it is
\* missing, NaN or infinite
NoExposure == [is |-> "missing", num |-> 0, den |-> 1]

seconds(num, den) == [is |-> "number", num |-> num, den |-> den]

\* as relativeErrorSmall, but every reciprocal is close enough
relativeErrorAny(num, den, denominator) == TRUE

\* Math.abs(1 / denominator - exposure) / exposure <= 0.02
relativeErrorSmall(num, den, denominator) ==
    The({50 * (IF diff < 0 THEN -diff ELSE diff) <= denominator * num :
         diff \in {den - denominator * num}})

formatExposureTime(exposure) ==
    IF exposure.is # "number" \/ exposure.num <= 0 THEN <<>>
    ELSE IF exposure.num >= exposure.den
    THEN The({IF tenths % 10 = 0 THEN decimal(tenths \div 10)
              ELSE decimal(tenths \div 10) \o <<".">> \o decimal(tenths % 10) :
              tenths \in {roundedQuotient(10 * exposure.num, exposure.den)}})
    ELSE The({IF /\ roundedDenominator > 0
                 /\ relativeErrorSmall(exposure.num, exposure.den,
                                       roundedDenominator)
              THEN <<"1","/">> \o decimal(roundedDenominator)
              ELSE thousandthsText(
                       roundedQuotient(1000 * exposure.num, exposure.den)) :
              roundedDenominator \in {roundedQuotient(exposure.den, exposure.num)}})

\* the keys of the replacements record, in the order of the object literal
ReplacementKeys ==
    <<<<"d","a","t","e">>, <<"u","r","l","P","r","o","p","e","r","t","y">>, <<"c","o","v","e","r","P","r","o","p","e","r","t","y">>, <<"c","o","v","e","r">>, <<"u","r","l">>,
      <<"d","u","p","l","i","c","a","t","e">>, <<"b","a","s","e","n","a","m","e">>, <<"e","x","t","e","n","s","i","o","n">>, <<"f","o","l","d","e","r">>, <<"f","i","l","e","s","i","z","e">>,
      <<"e","x","i","f","J","s","o","n">>, <<"e","x","i","f","C","a","m","e","r","a","M","a","k","e","r">>, <<"e","x","i","f","C","a","m","e","r","a","M","o","d","e","l">>,
      <<"e","x","i","f","L","e","n","s","M","o","d","e","l">>, <<"e","x","i","f","T","a","k","e","n","A","t">>, <<"e","x","i","f","E","x","p","o","s","u","r","e","T","i","m","e">>,
      <<"e","x","i","f","F","N","u","m","b","e","r">>, <<"e","x","i","f","I","s","o">>, <<"e","x","i","f","F","o","c","a","l","L","e","n","g","t","h">>,
      <<"e","x","i","f","F","o","c","a","l","L","e","n","g","t","h","3","5","m","m">>, <<"e","x","i","f","L","a","t","i","t","u","d","e">>, <<"e","x","i","f","L","o","n","g","i","t","u","d","e">>,
      <<"e","x","i","f","A","l","t","i","t","u","d","e">>>>

\* dateCreated() on the day of the run
Today == <<"2","0","2","5","-","0","1","-","3","1">>

\* ExifSummary of an image without EXIF data (exifData is null)
NoExif ==
    [present |-> FALSE, maker |-> <<>>, model |-> <<>>,
     exposureTime |-> NoExposure, iso |-> -1]

\* `${n}` of a field that is a non-negative integer, '' when it is missing
numberField(n) == IF n < 0 THEN <<>> ELSE decimal(n)

\* the values of the replacements record, in the order of ReplacementKeys
replacementValues(cfg, file, duplicate, coverLink, exifData) ==
    <<Today,
      IF cfg.fileLinkProperty # <<>> THEN cfg.fileLinkProperty ELSE <<"u","r","l">>,
      IF cfg.coverLinkProperty # <<>> THEN cfg.coverLinkProperty ELSE <<"c","o","v","e","r">>,
      coverLink,
      file.path,
      IF duplicate THEN <<"t","r","u","e">> ELSE <<"f","a","l","s","e">>,
      file.basename,
      file.extension,
      file.parent,
      <<"0">>,
      IF exifData.present THEN <<"{","}">> ELSE <<>>,
      exifData.maker,
      exifData.model,
      <<>>,
      <<>>,
      formatExposureTime(exifData.exposureTime),
      <<>>,
      numberField(exifData.iso),
      <<>>, <<>>, <<>>, <<>>, <<>>>>

\* replacements[key]; the empty string stands for undefined as well
replacementOf(values, key) ==
    The({IF k = 0 THEN <<>> ELSE values[k] : k \in {IndexIn(key, ReplacementKeys)}})

\* smallest position from which part occurs in s at or after from, 0 if none
indexOfFrom(s, part, from) ==
    The({IF found = {} THEN 0
         ELSE CHOOSE i \in found : \A j \in found : i <= j :
         found \in {{i \in from..(Len(s) - Len(part) + 1) :
                       SubSeq(s, i, i + Len(part) - 1) = part}}})

\* as getSubstitution, but the replacement text is taken as it is
getSubstitutionPlain(value, i, matched, after) == value

\* String.prototype.replace with a string as replacement: '$$' stands for
\* '$', '$&' for the matched text and "$'" for the text after the match
\* (the patterns have no groups; the values of the model hold no backtick,
\* so the pattern for the text before the match does not occur)
RECURSIVE getSubstitution(_, _, _, _)
getSubstitution(value, i, matched, after) ==
    IF i > Len(value) THEN <<>>
    ELSE IF /\ value[i] = "$"
            /\ i < Len(value)
            /\ value[i + 1] \in {"$", "&", "'"}
    THEN (IF value[i + 1] = "$" THEN <<"$">>
          ELSE IF value[i + 1] = "&" THEN matched
          ELSE after)
            \o getSubstitution(value, i + 2, matched, after)
    ELSE <<value[i]>> \o getSubstitution(value, i + 1, matched, after)

\* rendered.replace(new RegExp(`{{${key}}}`, 'g'), value), from position from
RECURSIVE replaceFrom(_, _, _, _)
replaceFrom(s, from, token, value) ==
    The({IF i = 0 THEN SubSeq(s, from, Len(s))
         ELSE SubSeq(s, from, i - 1)
                \o getSubstitution(value, 1, token,
                                   SubSeq(s, i + Len(token), Len(s)))
                \o replaceFrom(s, i + Len(token), token, value) :
         i \in {indexOfFrom(s, token, from)}})

tokenOf(key) == <<"{","{">> \o key \o <<"}","}">>

\* for (const key in replacements) { rendered = rendered.replace(...) }
RECURSIVE replaceKeys(_, _, _)
replaceKeys(rendered, values, k) ==
    IF k > Len(ReplacementKeys) THEN rendered
    ELSE The({replaceKeys(replaced, values, k + 1) :
              replaced \in {replaceFrom(rendered, 1, tokenOf(ReplacementKeys[k]),
                                        values[k])}})

\* block.split('\n')
RECURSIVE split(_, _)
split(s, from) ==
    The({IF i = 0 THEN <<SubSeq(s, from, Len(s))>>
         ELSE <<SubSeq(s, from, i - 1)>> \o split(s, i + 1) :
         i \in {indexOfFrom(s, <<"\n">>, from)}})

\* kept.join('\n')
RECURSIVE join(_)
join(lines) ==
    IF lines = <<>> THEN <<>>
    ELSE IF Len(lines) = 1 THEN lines[1]
    ELSE lines[1] \o <<"\n">> \o join(Tail(lines))

\* line.matchAll(/\{\{([^}]+)\}\}/g): the raw keys, from position from
RECURSIVE rawKeys(_, _)
rawKeys(line, from) ==
    The({IF starts = {} THEN <<>>
         ELSE The({<<SubSeq(line, i + 2, indexOfFrom(line, <<"}">>, i + 2) - 1)>>
                      \o rawKeys(line, indexOfFrom(line, <<"}">>, i + 2) + 2) :
                   i \in {CHOOSE i \in starts : \A j \in starts : i <= j}}) :
         starts \in {{i \in from..(Len(line) - 4) :
                        /\ SubSeq(line, i, i + 1) = <<"{","{">>
                        /\ line[i + 2] # "}"
                        /\ \E e \in {indexOfFrom(line, <<"}">>, i + 2)} :
                              /\ e # 0
                              /\ e < Len(line)
                              /\ line[e + 1] = "}"}}})

\* typeof value === 'string' && value.trim().length > 0
isFilled(values, rawKey) == trim(replacementOf(values, trim(rawKey))) # <<>>

\* as allFilled, but one filled key is enough
someFilled(values, keys) ==
    \E i \in DOMAIN keys : isFilled(values, keys[i])

\* matches.every(...)
allFilled(values, keys) ==
    \A i \in DOMAIN keys : isFilled(values, keys[i])

\* as withPending, but the lines held back are dropped
withoutPending(kept, pending, hasData) == kept

\* if (!hasData) { kept.push(...pending); pending.length = 0; }
withPending(kept, pending, hasData) ==
    IF hasData THEN kept ELSE kept \o pending

\* the for loop of applyExifBlock over the lines from index i on
RECURSIVE keepLines(_, _, _, _, _, _)
keepLines(lines, i, values, kept, pending, hasData) ==
    IF i > Len(lines) THEN [kept |-> kept, hasData |-> hasData]
    ELSE The({
        IF keys = <<>>
        THEN IF hasData
             THEN keepLines(lines, i + 1, values, Append(kept, lines[i]),
                            pending, hasData)
             ELSE keepLines(lines, i + 1, values, kept,
                            Append(pending, lines[i]), hasData)
        ELSE IF allFilled(values, keys)
        THEN keepLines(lines, i + 1, values,
                       Append(withPending(kept, pending, hasData), lines[i]),
                       IF hasData THEN pending ELSE <<>>, TRUE)
        ELSE keepLines(lines, i + 1, values, kept, pending, hasData) :
        keys \in {rawKeys(lines[i], 1)}})

\* replace(/\n+$/g, '')
stripTrailingNewlines(s) ==
    The({SubSeq(v, 1, lastIndexNotIn(v, {"\n"})) : v \in {s}})

\* the callback of applyExifBlock on the text between the markers
exifBlock(block, values) ==
    The({IF ~result.hasData THEN <<>>
         ELSE stripTrailingNewlines(join(result.kept)) :
         result \in {keepLines(split(block, 1), 1, values, <<>>, <<>>, FALSE)}})

ExifOpen == <<"{","e","x","i","f","}">>

ExifClose == <<"{","/","e","x","i","f","}">>

\* template.replace(/\{exif\}([\s\S]*?)\{\/exif\}/g, ...), from position from
RECURSIVE applyExifBlockFrom(_, _, _)
applyExifBlockFrom(template, from, values) ==
    The({IF open = 0 \/ indexOfFrom(template, ExifClose, open + Len(ExifOpen)) = 0
         THEN SubSeq(template, from, Len(template))
         ELSE The({SubSeq(template, from, open - 1)
                      \o exifBlock(SubSeq(template, open + Len(ExifOpen), close - 1),
                                   values)
                      \o applyExifBlockFrom(template, close + Len(ExifClose), values) :
                   close \in {indexOfFrom(template, ExifClose,
                                          open + Len(ExifOpen))}}) :
         open \in {indexOfFrom(template, ExifOpen, from)}})

applyExifBlock(template, values) == applyExifBlockFrom(template, 1, values)

\* buildNoteContent from the template on: the text of the note
renderTemplate(template, values) ==
    replaceKeys(applyExifBlock(template, values), values, 1)

(***************************************************************************)
(* buildNoteContent called on its own for an image, from the template on:  *)
(* templates with tokens of known and unknown keys and with {exif} blocks, *)
(* files whose name holds '$' or braces, and EXIF data that is missing,    *)
(* complete, or partly blank.                                              *)
(***************************************************************************)
RenderTemplates ==
    {<<"{","{","u","r","l","P","r","o","p","e","r","t","y","}","}",":"," ","\"","[","[","{","{","u","r","l","}","}","]","]","\"","\n","{","{","x","}","}"," ","{","{","u","r","l","}","}">>,
     <<"{","{","b","a","s","e","n","a","m","e","}","}",".","{","{","e","x","t","e","n","s","i","o","n","}","}"," ","{","{"," ","u","r","l"," ","}","}"," ","{","{","d","u","p","l","i","c","a","t","e","}","}">>,
     <<"A","\n","{","e","x","i","f","}","C","a","m","\n","{","{","e","x","i","f","C","a","m","e","r","a","M","a","k","e","r","}","}"," ","{","{","e","x","i","f","C","a","m","e","r","a","M","o","d","e","l","}","}","\n","\n","i","s","o"," ","{","{","e","x","i","f","I","s","o","}","}","\n","e","n","d","\n","\n","{","/","e","x","i","f","}","\n","B","{","{","u","r","l","}","}">>,
     <<"{","e","x","i","f","}","L","\n","{","{","e","x","i","f","L","e","n","s","M","o","d","e","l","}","}","\n","M","\n","{","/","e","x","i","f","}">>,
     <<"{","e","x","i","f","}","{","{"," ","e","x","i","f","I","s","o"," ","}","}","\n","x","\n","{","{","e","x","i","f","C","a","m","e","r","a","M","o","d","e","l","}","}","{","{","y","}","}","\n","{","{","e","x","i","f","E","x","p","o","s","u","r","e","T","i","m","e","}","}","s","\n","{","/","e","x","i","f","}">>}

FileDollar ==
    [path |-> <<"s","/","U","S","$","$",".","p","n","g">>, basename |-> <<"U","S","$","$">>, extension |-> ExtPng,
     parent |-> <<"s">>]

FileAmpersand ==
    [path |-> <<"a","$","&",".","p","n","g">>, basename |-> <<"a","$","&">>, extension |-> ExtPng,
     parent |-> <<"/">>]

FileBraces ==
    [path |-> <<"s","/","{","{","f","o","l","d","e","r","}","}",".","p","n","g">>, basename |-> <<"{","{","f","o","l","d","e","r","}","}">>,
     extension |-> ExtPng, parent |-> <<"s">>]

ExifChoices ==
    {NoExif,
     [present |-> TRUE, maker |-> <<"M">>, model |-> <<"X">>,
      exposureTime |-> seconds(1, 200), iso |-> 100],
     [present |-> TRUE, maker |-> <<" ">>, model |-> <<"X">>,
      exposureTime |-> NoExposure, iso |-> -1],
     [present |-> TRUE, maker |-> <<>>, model |-> <<>>,
      exposureTime |-> NoExposure, iso |-> 100]}

RenderInputs ==
    [template : RenderTemplates,
     file : {FileRootA, FileDollar, FileAmpersand, FileBraces},
     exifData : ExifChoices, duplicate : BOOLEAN]

RenderSettings == [DefaultSettings EXCEPT !.coverLinkProperty = <<"c","o","v","e","r">>]

RenderInit == ProbeInit({RenderSettings}, {FileRootA}, RenderInputs)

\* the replacements of the probed call
probedValues ==
    replacementValues(settings, probe.in.file, probe.in.duplicate,
                      probe.in.file.path, probe.in.exifData)

\* block is the text after applyExifBlock, text the note
ApplyRenderTemplate ==
    Returns([block |-> applyExifBlock(probe.in.template, probedValues),
             text |-> renderTemplate(probe.in.template, probedValues)])

RenderNext == ApplyRenderTemplate

RenderSpec == RenderInit /\ [][RenderNext]_vars

\* the template read once from left to right: a token of a key of the map
\* gives the value of the key, every other character stays
RECURSIVE substituted(_, _, _)
substituted(template, values, from) ==
    IF from > Len(template) THEN <<>>
    ELSE The({IF here = {}
              THEN <<template[from]>> \o substituted(template, values, from + 1)
              ELSE The({values[k] \o substituted(template, values,
                                        from + Len(tokenOf(ReplacementKeys[k]))) :
                        k \in here}) :
              here \in {{k \in DOMAIN ReplacementKeys :
                           indexOfFrom(template, tokenOf(ReplacementKeys[k]), from)
                              = from}}})

\* C31: the rendering of a template (one without {exif} block) replaces
\* every occurrence of {{key}}, for each key of the replacements, with the
\* value of the key, and leaves every other {{key}} as it is written.
C31_EveryTokenGetsItsValue ==
    (probe.done /\ indexOfFrom(probe.in.template, ExifOpen, 1) = 0)
        => probe.out.text = substituted(probe.in.template, probedValues, 1)

\* the probed template has an {exif} block
HasBlock == indexOfFrom(probe.in.template, ExifOpen, 1) # 0

\* the text before, inside and after the {exif} block of the probed template
probedBlock ==
    The({[before |-> SubSeq(probe.in.template, 1, open - 1),
          lines |-> split(SubSeq(probe.in.template, open + Len(ExifOpen),
                                 close - 1), 1),
          after |-> SubSeq(probe.in.template, close + Len(ExifClose),
                           Len(probe.in.template))] :
         open \in {indexOfFrom(probe.in.template, ExifOpen, 1)},
         close \in {indexOfFrom(probe.in.template, ExifClose, 1)}})

\* the line has tokens, and every key of them has a value that is not blank
dataLine(line) ==
    /\ rawKeys(line, 1) # <<>>
    /\ \A i \in DOMAIN rawKeys(line, 1) :
          trim(replacementOf(probedValues, trim(rawKeys(line, 1)[i]))) # <<>>

\* C32: an {exif} block in which no line with tokens has all of its keys
\* filled renders as the empty string, its label lines included, and the
\* markers {exif} and {/exif} are never part of the rendered text.
C32_UnfilledBlockCollapses ==
    (probe.done /\ HasBlock)
        => /\ indexOfFrom(probe.out.text, ExifOpen, 1) = 0
           /\ indexOfFrom(probe.out.text, ExifClose, 1) = 0
           /\ (\A i \in DOMAIN probedBlock.lines : ~dataLine(probedBlock.lines[i]))
                => probe.out.text = replaceKeys(probedBlock.before \o probedBlock.after,
                                           probedValues, 1)

C32_Witness ==
    /\ probe.done
    /\ probe.in.template
          = <<"A","\n","{","e","x","i","f","}","C","a","m","\n","{","{","e","x","i","f","C","a","m","e","r","a","M","a","k","e","r","}","}"," ","{","{","e","x","i","f","C","a","m","e","r","a","M","o","d","e","l","}","}","\n","\n","i","s","o"," ","{","{","e","x","i","f","I","s","o","}","}","\n","e","n","d","\n","\n","{","/","e","x","i","f","}","\n","B","{","{","u","r","l","}","}">>
    /\ probe.in.file = FileRootA
    /\ probe.in.exifData.maker = <<" ">>
    /\ probe.in.exifData.model = <<"X">>
    /\ probe.out.text = <<"A","\n","\n","B","a",".","p","n","g">>

\* the lines of the given indices, in their order
RECURSIVE selected(_, _, _)
selected(lines, indices, i) ==
    IF i > Len(lines) THEN <<>>
    ELSE (IF i \in indices THEN <<lines[i]>> ELSE <<>>)
            \o selected(lines, indices, i + 1)

\* the lines of the probed block that stay: the lines with tokens whose
\* keys are all filled and, if there is such a line, the lines without
\* tokens
stayingLines ==
    {i \in DOMAIN probedBlock.lines :
        \/ dataLine(probedBlock.lines[i])
        \/ /\ rawKeys(probedBlock.lines[i], 1) = <<>>
           /\ \E j \in DOMAIN probedBlock.lines : dataLine(probedBlock.lines[j])}

\* C33: in an {exif} block a line with tokens is kept exactly when every
\* key on it has a value that is not blank; the lines without tokens are in
\* the output only when a line with data is kept; and the kept lines stand
\* in the order of the template (line breaks at the end of the block are
\* cut).
C33_BlockKeepsFilledLinesInOrder ==
    (probe.done /\ HasBlock)
        => probe.out.block
              = probedBlock.before
                  \o stripTrailingNewlines(
                         join(selected(probedBlock.lines, stayingLines, 1)))
                  \o probedBlock.after

C33_Witness ==
    /\ probe.done
    /\ probe.in.template
          = <<"A","\n","{","e","x","i","f","}","C","a","m","\n","{","{","e","x","i","f","C","a","m","e","r","a","M","a","k","e","r","}","}"," ","{","{","e","x","i","f","C","a","m","e","r","a","M","o","d","e","l","}","}","\n","\n","i","s","o"," ","{","{","e","x","i","f","I","s","o","}","}","\n","e","n","d","\n","\n","{","/","e","x","i","f","}","\n","B","{","{","u","r","l","}","}">>
    /\ probe.in.file = FileRootA
    /\ probe.in.exifData.model = <<>>
    /\ probe.in.exifData.iso = 100
    /\ probe.out.block = <<"A","\n","C","a","m","\n","\n","i","s","o"," ","{","{","e","x","i","f","I","s","o","}","}","\n","e","n","d","\n","B","{","{","u","r","l","}","}">>
    /\ probe.out.text = <<"A","\n","C","a","m","\n","\n","i","s","o"," ","1","0","0","\n","e","n","d","\n","B","a",".","p","n","g">>

(***************************************************************************)
(* formatExposureTime on exposure times given as fractions of a second.    *)
(***************************************************************************)
ExposureDenominators == {1, 2, 3, 5, 7, 10, 25, 200}

ExposureInputs ==
    {NoExposure,
     [is |-> "NaN", num |-> 0, den |-> 1],
     [is |-> "infinite", num |-> 1, den |-> 1],
     seconds(0, 1), seconds(-1, 2), seconds(13333, 10000)}
        \cup {seconds(num, den) : num \in 1..12, den \in ExposureDenominators}

ExposureInit == ProbeInit({DefaultSettings}, {FileRootA}, ExposureInputs)

ApplyFormatExposureTime == Returns(formatExposureTime(probe.in))

ExposureNext == ApplyFormatExposureTime

ExposureSpec == ExposureInit /\ [][ExposureNext]_vars

\* n is a / b rounded to the nearest integer, a half rounded up
nearest(a, b, n) == 2 * n * b <= 2 * a + b /\ 2 * a + b < 2 * (n + 1) * b

\* 1 / n differs from num / den by at most 2% of num / den
within2Percent(num, den, n) ==
    /\ 50 * (den - n * num) <= n * num
    /\ 50 * (n * num - den) <= n * num

\* the text of tenths / 10, an integer without decimals
oneDecimal(tenths) ==
    IF tenths % 10 = 0 THEN decimal(tenths \div 10)
    ELSE decimal(tenths \div 10) \o <<".">> \o decimal(tenths % 10)

\* the probed exposure is a positive number below one second
BelowOneSecond ==
    probe.in.is = "number" /\ 0 < probe.in.num /\ probe.in.num < probe.in.den

\* an exposure that is missing, not finite or not positive gives '', an
\* exposure of one second or more the decimal rounded to one place
EmptyOrDecimal ==
    /\ (probe.in.is # "number" \/ probe.in.num <= 0) => probe.out = <<>>
    /\ (probe.in.is = "number" /\ probe.in.num >= probe.in.den /\ probe.in.num > 0)
          => \E tenths \in 0..(10 * probe.in.num) :
                /\ nearest(10 * probe.in.num, probe.in.den, tenths)
                /\ probe.out = oneDecimal(tenths)

\* the three examples of the description
ExposureExamples ==
    /\ probe.in = seconds(1, 200) => probe.out = <<"1","/","2","0","0">>
    /\ probe.in = seconds(2, 1) => probe.out = <<"2">>
    /\ probe.in = seconds(13333, 10000) => probe.out = <<"1",".","3">>

\* C34, as stated: an exposure of one second or more is the decimal
\* rounded to one place, an exposure below one second is '1/N' with N the
\* nearest integer reciprocal, within 2% relative error, and a missing,
\* non-finite or non-positive exposure is ''.
C34_ExposureBelowOneIsFraction ==
    probe.done
        => /\ EmptyOrDecimal
           /\ ExposureExamples
           /\ BelowOneSecond
                 => \E n \in 1..probe.in.den :
                       /\ nearest(probe.in.den, probe.in.num, n)
                       /\ within2Percent(probe.in.num, probe.in.den, n)
                       /\ probe.out = <<"1","/">> \o decimal(n)

\* C34, amended: an exposure below one second is '1/N', N the nearest
\* integer reciprocal, when 1/N is within 2% of the exposure, and the
\* decimal rounded to three places otherwise; the rest as stated.
C34_FractionOnlyWithin2Percent ==
    probe.done
        => /\ EmptyOrDecimal
           /\ ExposureExamples
           /\ BelowOneSecond
                 => \E n \in 1..probe.in.den, m \in 0..1000 :
                       /\ nearest(probe.in.den, probe.in.num, n)
                       /\ nearest(1000 * probe.in.num, probe.in.den, m)
                       /\ probe.out
                             = IF within2Percent(probe.in.num, probe.in.den, n)
                               THEN <<"1","/">> \o decimal(n)
                               ELSE thousandthsText(m)

C34_Witness ==
    /\ probe.done
    /\ probe.in = seconds(2, 5)
    /\ probe.out = <<"0",".","4">>

\* C35: every folder in the set of ensured folders exists in the vault, in
\* every reachable state, so that a call that skips the check for an
\* ensured folder never goes on with a folder that is missing.
C35_EnsuredFoldersExist ==
    /\ ensuredFolders \subseteq folders
    /\ \A p \in Procs :
          PastFolderStep(p)
              => normalizeFolderPath(calls[p].targetFolder) \in folders \cup {<<>>}

\* the media files a link value refers to: the files a wiki link resolves
\* to, or the file at the path the value gives
linkTargets(mediaSet, raw) ==
    The({IF wikiInner(val) # <<>>
         THEN getFirstLinkpathDest(mediaSet, wikiInner(val))
         ELSE {f.path : f \in {g \in mediaSet : g.path = val}} :
         val \in {stripQuotes(trim(raw))}})

\* the media files the probed note links to, by the metadata cache and by
\* the YAML block of its content
noteLinks(mediaSet, in) ==
    (IF in.cache.throws THEN {}
     ELSE linkTargets(mediaSet, cachedValue(in.cache.front, linkKey(in.property))))
        \cup (IF /\ ~in.disk.throws
                 /\ in.disk.yaml
                 /\ findPropertyLine(in.disk.lines, linkKey(in.property)) # <<>>
              THEN linkTargets(mediaSet, decidingValue(in))
              ELSE {})

\* C36: a note whose link property refers to a media file is never reported
\* as matches for another media file: noteStatus(note, B) is
\* exists-different when the note links to A and not to B.
C36_LinkToAnotherFileIsDifferent ==
    (/\ probe.done
     /\ Compared(probe.in)
     /\ noteLinks(media, probe.in) # {}
     /\ probe.in.target \notin noteLinks(media, probe.in))
        => probe.out.status = StatusDifferent

(***************************************************************************)
(* The 'create' event of the vault for the notes the plugin itself         *)
(* creates, with extension lists as loadSettings normalizes them.          *)
(***************************************************************************)
ExtMd == <<"m","d">>

\* the characters at which a string of extensions is split: /[\s,;]+/
ListSeparators == Whitespace \cup {",", ";"}

\* value.split(/[\s,;]+/); the empty entries are filtered out afterwards
RECURSIVE splitList(_, _)
splitList(s, word) ==
    IF s = <<>> THEN {word}
    ELSE IF Head(s) \in ListSeparators
        THEN {word} \cup The({splitList(rest, <<>>) : rest \in {Tail(s)}})
    ELSE The({splitList(rest[1], rest[2]) :
              rest \in {<<Tail(s), Append(word, Head(s))>>}})

\* stored extensions: an array of entries, one string, or no usable value
ListOf(entries) == [is |-> "array", entries |-> entries, text |-> <<>>]

TextOf(text) == [is |-> "string", entries |-> {}, text |-> text]

NoList == [is |-> "other", entries |-> {}, text |-> <<>>]

\* normalizeExtensions(value, fallback) of loadSettings
normalizeExtensions(value, fallback) ==
    The({IF value.is = "other" /\ normalized = {} THEN fallback
         ELSE normalized :
         normalized \in
            {{The({toLowerCase(IF trimmed # <<>> /\ Head(trimmed) = "."
                               THEN Tail(trimmed) ELSE trimmed) :
                   trimmed \in {trim(entry)}}) :
                entry \in IF value.is = "array" THEN value.entries
                          ELSE IF value.is = "string"
                              THEN splitList(value.text, <<>>)
                          ELSE fallback} \ {<<>>}}})

\* what data.json may hold for otherExtensions
StoredOtherExtensions ==
    {NoList, ListOf({<<".","M","D">>}), TextOf(<<"d","o","c",";"," ","m","d">>), ListOf({<<" ","D","o","c"," ">>})}

\* loadSettings on the stored extensions (the other settings by default)
ChainSettings ==
    {[DefaultSettings EXCEPT
         !.otherExtensions = normalizeExtensions(stored, {})] :
        stored \in StoredOtherExtensions}

\* the TFile of the note at path
noteFile(path) ==
    [path |-> path,
     basename |-> SubSeq(path, lastIndexOf(path, "/") + 1, Len(path) - Len(MdSuffix)),
     extension |-> ExtMd,
     parent |-> IF parentPath(path) = <<>> THEN <<"/">> ELSE parentPath(path)]

\* the vault emits 'create' for the note the returned call q has created,
\* and the handler runs for it in slot p
NoteCreated(p, q, path) ==
    /\ calls[q].pc = "done"
    /\ path \in calls[q].created
    /\ FileCreated(p, noteFile(path))

ChainInit ==
    \E cfg \in ChainSettings : InitFrom([settings |-> cfg, media |-> {FileRootA}])

ChainNext ==
    \/ \E p \in Procs, f \in media : FileCreated(p, f)
    \/ \E p \in Procs, q \in Procs, path \in DOMAIN notes : NoteCreated(p, q, path)
    \/ \E p \in Procs : Step(p)
    \/ \E path \in DOMAIN notes : CacheRefresh(path)

ChainSpec == ChainInit /\ [][ChainNext]_vars

\* C37: with auto-create on, a note created by the plugin never triggers
\* the creation of a further note, whatever the extension sets are: every
\* note the handler creates is the note of a media file that was added to
\* the vault.
C37_CreatedNoteTriggersNoNote ==
    \A p \in Procs : calls[p].created # {} => calls[p].file \in media

\* C38: a media file is processed under one kind on every trigger: the kind
\* a processMedia call is given for a file is resolveKind(file), also when
\* the extension sets overlap.
C38_CallKindIsResolvedKind ==
    \A p \in Procs :
        calls[p].pc # "idle"
            => calls[p].kind = resolveKind(settings, calls[p].file)

\* C39: within one processMedia call the search for an existing note uses
\* the kind and the target folder of the canonical identity of that call:
\* the candidates are looked for in the target folder under the canonical
\* name, and the note that is updated lies in the target folder.
C39_SearchUsesTheIdentityOfTheCall ==
    \A p \in Procs :
        /\ calls[p].pc = "cands"
              => /\ calls[p].searchFolder = calls[p].targetFolder
                 /\ calls[p].searchPath = calls[p].notePath
        /\ calls[p].pc = "modify"
              => normalizeFolderPath(parentPath(calls[p].existing))
                    = calls[p].targetFolder

(***************************************************************************)
(* deleteMediaNotes on a vault that holds notes from earlier runs; a       *)
(* vault.delete may fail.                                                  *)
(***************************************************************************)
NoticeNoMediaNote == "No media note found for this file."

NoticeDeleteFailed == "Failed to delete media note. See console for details."

\* deleted === 1 ? 'Media note deleted.' : `${deleted} media notes deleted.`
NoticeDeleted(deleted) ==
    IF deleted = 1 THEN "Media note deleted."
    ELSE ToString(deleted) \o " media notes deleted."

\* the notes of the list that the loop of deleteMediaNotes has not reached
notesLeft(call) ==
    SelectSeq(call.matches, LAMBDA q : q \notin call.deleted \cup call.failed)

\* the notice deleteMediaNotes ends with
deleteNotice(call) ==
    IF call.matches = <<>> THEN NoticeNoMediaNote
    ELSE IF call.deleted = {} THEN NoticeDeleteFailed
    ELSE NoticeDeleted(Cardinality(call.deleted))

\* deleteMediaNotes once getMediaNotes has returned and after each
\* iteration of its loop: on to the next note, or the notice and the end
loopOrEnd(call) ==
    IF notesLeft(call) # <<>> THEN [call EXCEPT !.pc = "delete"]
    ELSE [call EXCEPT !.pc = "done", !.outcome = "deleted"]

\* as afterFailedDelete, but the loop ends at the first failure
afterFailedDeleteStops(call, note) ==
    [call EXCEPT !.failed = call.failed \cup {note},
                 !.pc = "done", !.outcome = "deleted"]

\* catch (error) { console.error(...) }: the loop goes on
afterFailedDelete(call, note) ==
    loopOrEnd([call EXCEPT !.failed = call.failed \cup {note}])

\* the notices after a step of deleteMediaNotes that leaves the call as next
noticesAfter(next) ==
    IF next.pc = "done" THEN notices \cup {deleteNotice(next)} ELSE notices

\* the command 'Delete media note for current file' on file: it calls
\* deleteMediaNotes(file, resolveKind(file)), which checks the canonical
\* path and lists the candidates
DeleteMediaNotes(p, file) ==
    /\ handlersRegistered
    /\ calls[p].pc \in {"idle", "done"}
    /\ runs < MaxRuns
    /\ \E kind \in {resolveKind(settings, file)} :
          /\ kind # NoKind
          /\ \E folder \in {searchFolder(settings, file, kind)} :
             \E identity \in {computePrimaryNotePath(settings, file, kind, folder)} :
             \E search \in {searchRecord(kind, folder, identity)} :
             \E candidates \in {candidatesOf(search)} :
             \E found \in {[IdleCall EXCEPT
                               !.file = file, !.kind = kind,
                               !.targetFolder = folder,
                               !.baseName = identity.baseName,
                               !.notePath = identity.notePath,
                               !.searchFolder = search.folder,
                               !.searchBase = search.baseName,
                               !.searchPath = search.notePath,
                               !.before = DOMAIN notes,
                               !.cands = candidates,
                               !.matches = primaryMatch(search, file)]} :
             \E next \in {IF candidates = {} THEN loopOrEnd(found)
                           ELSE [found EXCEPT !.pc = "dcands"]} :
                /\ calls' = [calls EXCEPT ![p] = next]
                /\ notices' = noticesAfter(next)
    /\ runs' = runs + 1
    /\ UNCHANGED <<settings, media, probe, phase, scan, vaultVars, ioFailures,
                   lastRun>>

\* one iteration of the loop of getMediaNotes over the candidates
DeleteCandidate(p, c) ==
    /\ calls[p].pc = "dcands"
    /\ c \in calls[p].cands
    /\ \E checked \in {[calls[p] EXCEPT
                           !.cands = calls[p].cands \ {c},
                           !.matches = examined(calls[p], c)]} :
       \E next \in {IF checked.cands = {} THEN loopOrEnd(checked) ELSE checked} :
          /\ calls' = [calls EXCEPT ![p] = next]
          /\ notices' = noticesAfter(next)
    /\ UNCHANGED <<settings, media, probe, phase, scan, vaultVars, runs,
                   ioFailures, lastRun>>

\* await this.app.vault.delete(note); deleted++
DeleteNote(p) ==
    /\ calls[p].pc = "delete"
    /\ \E note \in {Head(notesLeft(calls[p]))} :
          /\ note \in DOMAIN notes
          /\ notes' = [q \in DOMAIN notes \ {note} |-> notes[q]]
          /\ cache' = [q \in DOMAIN cache \ {note} |-> cache[q]]
          /\ \E next \in {loopOrEnd([calls[p] EXCEPT
                                        !.deleted = calls[p].deleted \cup {note}])} :
                /\ calls' = [calls EXCEPT ![p] = next]
                /\ notices' = noticesAfter(next)
    /\ UNCHANGED <<settings, media, probe, phase, scan, folders, ensuredFolders,
                   templateCache, thumbs, runs, ioFailures, lastRun>>

\* vault.delete rejects
DeleteNoteFails(p) ==
    /\ calls[p].pc = "delete"
    /\ ioFailures < MaxIoFailures
    /\ ioFailures' = ioFailures + 1
    /\ \E next \in {afterFailedDelete(calls[p], Head(notesLeft(calls[p])))} :
          /\ calls' = [calls EXCEPT ![p] = next]
          /\ notices' = noticesAfter(next)
    /\ UNCHANGED <<settings, media, probe, phase, scan, vaultVars, runs, lastRun>>

DeleteInit == IndexInit

DeleteNext ==
    \/ \E f \in media : DeleteMediaNotes(1, f)
    \/ \E c \in calls[1].cands : DeleteCandidate(1, c)
    \/ DeleteNote(1)
    \/ DeleteNoteFails(1)

DeleteSpec == DeleteInit /\ [][DeleteNext]_vars

\* the notes of the list of the call
listed(call) == {call.matches[i] : i \in DOMAIN call.matches}

\* the canonical note and the copies of the file of the call that noteStatus
\* reports as matches
matchingNotes ==
    {q \in DOMAIN notes :
        /\ normalizeFolderPath(parentPath(q)) = calls[1].targetFolder
        /\ \/ q = calls[1].notePath
           \/ fileBasename(q) = calls[1].baseName
           \/ startsWith(fileBasename(q), calls[1].baseName \o <<" ","(">>)
        /\ matchesNow(q)}

====
